---- MODULE Spec2Model ----
(***************************************************************************)
(* Shape tree of the design canvas: the shape store (a flat id -> shape    *)
(* map with parentId / children links), the Hierarchy Manager's nesting    *)
(* checks, the Snap Engine's parent search and the canvas handlers that    *)
(* drive them.                                                             *)
(*                                                                         *)
(* Coordinates are integers (pixels).  Ids are issued by a counter: the    *)
(* source draws a fresh uuid per shape, so an id is never issued twice.    *)
(* A JavaScript Map iterates in insertion order and Map.set on a key that  *)
(* is already present keeps its place, so the iteration order of the       *)
(* shapes map is the order of creation, i.e. ascending id.                 *)
(***************************************************************************)
EXTENDS Integers, Sequences, FiniteSets, TLC

\* ---------------------------------------------------------------- bounds
\* number of shapes ever created (ids are 1..MaxShapes)
MaxShapes == 3
\* stored coordinates are kept within -MaxCoord..MaxCoord
MaxCoord == 1
\* length of a children list
MaxChildren == 3
\* number of shapes ever created on the canvas
MaxCanvasShapes == 2

\* ------------------------------------------------------------- constants
\* parentId: null
Null == 0
\* SimpleSuggestionEngine: gap between a shape and the one suggested beside it
SuggestGap == 20
\* SimpleSuggestionEngine.suggestNestedElement: padding
NestedPadding == 20
\* SimpleSuggestionEngine.suggestNestedElement: cap of the nested height
NestedMaxHeight == 60
\* SimpleSuggestionEngine.generateSuggestions: size above which a nested
\* element is suggested
NestedMinWidth == 200
NestedMinHeight == 150
\* SimpleSuggestionEngine.suggestStarterContainer: padding, largest size
StarterPadding == 50
StarterMaxWidth == 800
StarterMaxHeight == 600
\* DEFAULT_CANVAS
CanvasWidth == 1920
CanvasHeight == 1080
\* handleMouseUp: a drawn shape is created when both sides exceed this
MinDrawSize == 5
\* handleTransformEnd: floor of width and height
MinSize == 10
\* SnapEngine constructor: default threshold
SnapThreshold == 8

Ids == 1..MaxShapes
ShapeTypes == {"rect", "circle", "frame"}

\* shape store: shapes, shapeOrder, selectedIds; nextId stands for the uuid
\* source.  suggestion store: suggestions, activeSuggestion, usedPositions.
\* canvas: draggingId is the shape between its dragstart and its dragend,
\* dragMoved whether a dragmove of it was delivered (a drag delivers dragstart,
\* one or more dragmove, then dragend).  pendingFrames is the queue of the
\* callbacks passed to requestAnimationFrame that have not run yet.  dragLog
\* is a history variable: the frames whose children list the last drag and
\* drop changed, and the frames whose children it laid out again.  cascadeLog
\* is a history variable: the cascades of the Hierarchy Manager applied so
\* far, each with the shapes it was applied to.  history is the store's
\* history (actions) and historyIndex; a specification that states nothing
\* about the history starts it with kept = FALSE and then nothing is recorded
\* in it.  snapEngine is the SnapEngine singleton (threshold, enabled).
\* callLog is a history variable: the last call of a function of an engine
\* that keeps no state of its own, with its arguments and its result.
\* gemini is the module state of the Gemini suggestion engine.
VARIABLES shapes, shapeOrder, selectedIds, nextId,
          suggestions, activeSuggestion, usedPositions, draggingId, dragMoved,
          pendingFrames, dragLog, cascadeLog, history, snapEngine, callLog, gemini

vars == <<shapes, shapeOrder, selectedIds, nextId,
          suggestions, activeSuggestion, usedPositions, draggingId, dragMoved,
          pendingFrames, dragLog, cascadeLog, history, snapEngine, callLog, gemini>>

\* the animation frames and the history of the drag in progress
flowVars == <<pendingFrames, dragLog, cascadeLog>>

\* the engines beside the shape store and the canvas
engineVars == <<snapEngine, callLog, gemini>>

\* what the shape store's own operations leave alone
canvasVars == <<suggestions, activeSuggestion, usedPositions, draggingId, dragMoved,
                flowVars>>

\* ------------------------------------------------------------- sequences
RECURSIVE SeqFilterOut(_, _)
\* array.filter((x) => x !== id)
SeqFilterOut(s, id) ==
    IF s = <<>> THEN <<>>
    ELSE IF Head(s) = id THEN SeqFilterOut(Tail(s), id)
         ELSE <<Head(s)>> \o SeqFilterOut(Tail(s), id)

SeqElems(s) == {s[i] : i \in 1..Len(s)}

RECURSIVE SortedSeq(_)
\* the elements of a set of integers in ascending order
SortedSeq(S) ==
    IF S = {} THEN <<>>
    ELSE LET m == CHOOSE a \in S : \A b \in S : a <= b
         IN <<m>> \o SortedSeq(S \ {m})

\* Map iteration order of the shapes map: insertion order
MapKeys(m) == SortedSeq(DOMAIN m)

\* Array.from(shapes.values())
MapValues(m) == [i \in 1..Len(MapKeys(m)) |-> m[MapKeys(m)[i]]]

\* Map.set
MapSet(m, id, s) == [k \in (DOMAIN m) \cup {id} |-> IF k = id THEN s ELSE m[k]]

\* Map.delete
MapDelete(m, id) == [k \in (DOMAIN m) \ {id} |-> m[k]]

\* ------------------------------------------------------------ shape store
\* createDefaultShape: the fields the hierarchy and the geometry use
createDefaultShape(id, input) ==
    [id |-> id, type |-> input.type,
     x |-> input.x, y |-> input.y,
     width |-> input.width, height |-> input.height,
     parentId |-> input.parentId,
     children |-> <<>>,
     rotation |-> 0]

\* addShape: the shapes map after the call
addShapeMap(m, id, input) ==
    LET shape0 == createDefaultShape(id, input)
        conv == shape0.parentId # Null /\ shape0.parentId \in DOMAIN m
        shape == IF conv
                 THEN [shape0 EXCEPT !.x = shape0.x - m[shape0.parentId].x,
                                     !.y = shape0.y - m[shape0.parentId].y]
                 ELSE shape0
        m1 == MapSet(m, id, shape)
    IN IF shape.parentId # Null /\ shape.parentId \in DOMAIN m1
       THEN MapSet(m1, shape.parentId,
                   [m1[shape.parentId] EXCEPT
                       !.children = Append(m1[shape.parentId].children, id)])
       ELSE m1

\* nestShape: the child's world x as the store computes it
NestWorldX(m, childId) ==
    LET child == m[childId]
    IN IF child.parentId # Null /\ child.parentId \in DOMAIN m
       THEN m[child.parentId].x + child.x
       ELSE child.x

\* nestShape: the child's world y as the store computes it
NestWorldY(m, childId) ==
    LET child == m[childId]
    IN IF child.parentId # Null /\ child.parentId \in DOMAIN m
       THEN m[child.parentId].y + child.y
       ELSE child.y

nestDetachKeepsOldLink(m, childId) == m

\* nestShape: "Remove from old parent's children array"
nestDetach(m, childId) ==
    LET child == m[childId]
    IN IF child.parentId # Null /\ child.parentId \in DOMAIN m
       THEN MapSet(m, child.parentId,
                   [m[child.parentId] EXCEPT
                       !.children = SeqFilterOut(m[child.parentId].children, childId)])
       ELSE m

\* nestShape: the shapes map after the call
nestShapeMap(m, childId, parentId) ==
    IF childId \notin DOMAIN m \/ parentId \notin DOMAIN m \/ childId = parentId
    THEN m
    ELSE LET child == m[childId]
             newParent == m[parentId]
             childWorldX == NestWorldX(m, childId)
             childWorldY == NestWorldY(m, childId)
             m1 == nestDetach(m, childId)
             relativeX == childWorldX - newParent.x
             relativeY == childWorldY - newParent.y
             \* newParent is the object read before the old parent was rewritten
             m2 == MapSet(m1, parentId,
                          [newParent EXCEPT !.children = Append(newParent.children, childId)])
         IN MapSet(m2, childId,
                   [child EXCEPT !.parentId = parentId, !.x = relativeX, !.y = relativeY])

unnestWorldDropsY(parent, child) == [x |-> parent.x + child.x, y |-> child.y]

\* unnestShape: "Convert child's relative coordinates to world coordinates"
unnestWorld(parent, child) == [x |-> parent.x + child.x, y |-> parent.y + child.y]

\* unnestShape: the shapes map after the call
unnestShapeMap(m, childId) ==
    IF childId \notin DOMAIN m THEN m
    ELSE IF m[childId].parentId = Null THEN m
    ELSE LET child == m[childId]
         IN IF child.parentId \in DOMAIN m
            THEN LET parent == m[child.parentId]
                     worldX == unnestWorld(parent, child).x
                     worldY == unnestWorld(parent, child).y
                     m1 == MapSet(m, parent.id,
                                  [parent EXCEPT !.children = SeqFilterOut(parent.children, childId)])
                 IN MapSet(m1, childId,
                           [child EXCEPT !.parentId = Null, !.x = worldX, !.y = worldY])
            ELSE MapSet(m, childId, [child EXCEPT !.parentId = Null])

RECURSIVE deleteChildren(_, _)
RECURSIVE deleteEach(_, _)
\* deleteShape: parent.children.forEach(deleteChildren(childId); delete(childId))
deleteEach(m, kids) ==
    IF kids = <<>> THEN m
    ELSE deleteEach(MapDelete(deleteChildren(m, Head(kids)), Head(kids)), Tail(kids))

\* deleteShape: the local function deleteChildren
deleteChildren(m, parentId) ==
    IF parentId \in DOMAIN m THEN deleteEach(m, m[parentId].children) ELSE m

\* deleteShape: the shapes map after the call
deleteShapeMap(m, id) ==
    IF id \notin DOMAIN m THEN m
    ELSE LET shape == m[id]
             m1 == IF shape.parentId # Null /\ shape.parentId \in DOMAIN m
                   THEN MapSet(m, shape.parentId,
                               [m[shape.parentId] EXCEPT
                                   !.children = SeqFilterOut(m[shape.parentId].children, id)])
                   ELSE m
         IN MapDelete(deleteChildren(m1, id), id)

\* ------------------------------------------------------ Hierarchy Manager
RECURSIVE ancestorsFrom(_, _, _)
\* getAncestors: the while loop, from currentShape.  The loop of the source
\* does not end on a cyclic parent chain; the walk is cut after `fuel` steps,
\* which no acyclic chain reaches.
ancestorsFrom(m, currentShape, fuel) ==
    IF fuel = 0 THEN <<>>
    ELSE IF currentShape.parentId # Null /\ currentShape.parentId \in DOMAIN m
         THEN <<m[currentShape.parentId]>>
              \o ancestorsFrom(m, m[currentShape.parentId], fuel - 1)
         ELSE <<>>

\* getAncestors(shapeId, shapes): nearest first
getAncestors(shapeId, m) ==
    IF shapeId \notin DOMAIN m THEN <<>>
    ELSE ancestorsFrom(m, m[shapeId], Cardinality(DOMAIN m) + 1)

canNestNoCycleCheck(childId, parentId, m) ==
    IF childId = parentId THEN FALSE
    ELSE IF childId \notin DOMAIN m \/ parentId \notin DOMAIN m THEN FALSE
    ELSE IF m[parentId].type # "frame" THEN FALSE
    ELSE /\ m[childId].x >= m[parentId].x
         /\ m[childId].y >= m[parentId].y
         /\ m[childId].x + m[childId].width <= m[parentId].x + m[parentId].width
         /\ m[childId].y + m[childId].height <= m[parentId].y + m[parentId].height

canNestAnyParentType(childId, parentId, m) ==
    IF childId = parentId THEN FALSE
    ELSE IF childId \notin DOMAIN m \/ parentId \notin DOMAIN m THEN FALSE
    ELSE IF \E i \in 1..Len(getAncestors(parentId, m)) :
                getAncestors(parentId, m)[i].id = childId THEN FALSE
    ELSE /\ m[childId].x >= m[parentId].x
         /\ m[childId].y >= m[parentId].y
         /\ m[childId].x + m[childId].width <= m[parentId].x + m[parentId].width
         /\ m[childId].y + m[childId].height <= m[parentId].y + m[parentId].height

\* canNest(childId, parentId, shapes)
canNest(childId, parentId, m) ==
    IF childId = parentId THEN FALSE
    ELSE IF childId \notin DOMAIN m \/ parentId \notin DOMAIN m THEN FALSE
    ELSE IF m[parentId].type # "frame" THEN FALSE
    ELSE IF \E i \in 1..Len(getAncestors(parentId, m)) :
                getAncestors(parentId, m)[i].id = childId THEN FALSE
    ELSE LET child == m[childId]
             parent == m[parentId]
             childRight == child.x + child.width
             childBottom == child.y + child.height
             parentRight == parent.x + parent.width
             parentBottom == parent.y + parent.height
         IN /\ child.x >= parent.x
            /\ child.y >= parent.y
            /\ childRight <= parentRight
            /\ childBottom <= parentBottom

areaIsSmallerOrEqual(area, best, m) ==
    IF best = Null THEN TRUE ELSE area <= m[best].width * m[best].height

\* findBestParent: area < smallestArea, where best = Null stands for
\* smallestArea = Infinity
areaIsSmaller(area, best, m) ==
    IF best = Null THEN TRUE ELSE area < m[best].width * m[best].height

RECURSIVE bestParentLoop(_, _, _, _, _)
\* findBestParent: the for loop over the map; best = Null stands for
\* bestParent = null, smallestArea = Infinity
bestParentLoop(shape, m, excludeIds, keys, best) ==
    IF keys = <<>> THEN best
    ELSE LET id == Head(keys)
             candidate == m[id]
             shapeRight == shape.x + shape.width
             shapeBottom == shape.y + shape.height
             candidateRight == candidate.x + candidate.width
             candidateBottom == candidate.y + candidate.height
             inside == /\ shape.x >= candidate.x
                       /\ shape.y >= candidate.y
                       /\ shapeRight <= candidateRight
                       /\ shapeBottom <= candidateBottom
             area == candidate.width * candidate.height
             smaller == areaIsSmaller(area, best, m)
             next == IF id = shape.id \/ id \in excludeIds THEN best
                     ELSE IF candidate.type # "frame" THEN best
                     ELSE IF inside /\ smaller THEN id
                     ELSE best
         IN bestParentLoop(shape, m, excludeIds, Tail(keys), next)

\* findBestParent(shape, shapes, excludeIds): the id of the frame, or Null
findBestParent(shape, m, excludeIds) ==
    bestParentLoop(shape, m, excludeIds, MapKeys(m), Null)

\* ------------------------------------------------------------ Snap Engine
\* findPotentialParent: the filter predicate
isPotentialParent(shape, s) ==
    IF s.id = shape.id THEN FALSE
    ELSE IF s.type # "frame" THEN FALSE
    ELSE /\ shape.x >= s.x
         /\ shape.y >= s.y
         /\ shape.x + shape.width <= s.x + s.width
         /\ shape.y + shape.height <= s.y + s.height

RECURSIVE potentialParents(_, _)
\* findPotentialParent: allShapes.filter(...)
potentialParents(shape, allShapes) ==
    IF allShapes = <<>> THEN <<>>
    ELSE IF isPotentialParent(shape, Head(allShapes))
         THEN <<Head(allShapes)>> \o potentialParents(shape, Tail(allShapes))
         ELSE potentialParents(shape, Tail(allShapes))

smallerOfPrefersCurrent(smallest, current) ==
    IF current.width * current.height <= smallest.width * smallest.height
    THEN current ELSE smallest

\* findPotentialParent: the reducer, currentArea < smallestArea ? current : smallest
smallerOf(smallest, current) ==
    LET smallestArea == smallest.width * smallest.height
        currentArea == current.width * current.height
    IN IF currentArea < smallestArea THEN current ELSE smallest

RECURSIVE reduceSmallest(_, _)
\* findPotentialParent: potentialParents.reduce((smallest, current) => ...)
reduceSmallest(smallest, rest) ==
    IF rest = <<>> THEN smallest
    ELSE reduceSmallest(smallerOf(smallest, Head(rest)), Tail(rest))

\* findPotentialParent(shape, allShapes): the id of the frame, or Null
findPotentialParent(shape, allShapes) ==
    LET pp == potentialParents(shape, allShapes)
    IN IF Len(pp) = 0 THEN Null
       ELSE reduceSmallest(Head(pp), Tail(pp)).id

Abs(n) == IF n < 0 THEN -n ELSE n

Min(a, b) == IF a < b THEN a ELSE b

Max(a, b) == IF a > b THEN a ELSE b

\* snapShape: the checks of one target on the X axis, cur being snappedX so
\* far.  Centres are compared doubled; every width of this model is even, so
\* targetCenterX - width / 2 is an integer.
snapXToTarget(newX, width, target, cur) ==
    LET movingRight == newX + width
        targetRight == target.x + target.width
    IN IF Abs(newX - target.x) < SnapThreshold THEN target.x
       ELSE IF Abs(movingRight - targetRight) < SnapThreshold THEN targetRight - width
       ELSE IF Abs(newX - targetRight) < SnapThreshold THEN targetRight
       ELSE IF Abs(movingRight - target.x) < SnapThreshold THEN target.x - width
       ELSE IF Abs((2 * newX + width) - (2 * target.x + target.width)) < 2 * SnapThreshold
            THEN (2 * target.x + target.width - width) \div 2
       ELSE cur

\* snapShape: the checks of one target on the Y axis
snapYToTarget(newY, height, target, cur) ==
    LET movingBottom == newY + height
        targetBottom == target.y + target.height
    IN IF Abs(newY - target.y) < SnapThreshold THEN target.y
       ELSE IF Abs(movingBottom - targetBottom) < SnapThreshold THEN targetBottom - height
       ELSE IF Abs(newY - targetBottom) < SnapThreshold THEN targetBottom
       ELSE IF Abs(movingBottom - target.y) < SnapThreshold THEN target.y - height
       ELSE IF Abs((2 * newY + height) - (2 * target.y + target.height)) < 2 * SnapThreshold
            THEN (2 * target.y + target.height - height) \div 2
       ELSE cur

RECURSIVE snapLoop(_, _, _, _, _)
\* snapShape: for (const target of otherShapes), cur = <<snappedX, snappedY>>
snapLoop(movingShape, newX, newY, otherShapes, cur) ==
    IF otherShapes = <<>> THEN cur
    ELSE LET target == Head(otherShapes)
             next == IF target.id = movingShape.id THEN cur
                     ELSE <<snapXToTarget(newX, movingShape.width, target, cur[1]),
                            snapYToTarget(newY, movingShape.height, target, cur[2])>>
         IN snapLoop(movingShape, newX, newY, Tail(otherShapes), next)

\* snapShape with snapping enabled (the constructor's setting): the snapped
\* position <<snappedX, snappedY>>
snapShape(movingShape, newX, newY, otherShapes, canvasWidth, canvasHeight) ==
    LET centerX == IF Abs((2 * newX + movingShape.width) - canvasWidth) < 2 * SnapThreshold
                   THEN (canvasWidth - movingShape.width) \div 2
                   ELSE newX
        centerY == IF Abs((2 * newY + movingShape.height) - canvasHeight) < 2 * SnapThreshold
                   THEN (canvasHeight - movingShape.height) \div 2
                   ELSE newY
    IN snapLoop(movingShape, newX, newY, otherShapes, <<centerX, centerY>>)

\* ------------------------------------------------------ Suggestion Engine
\* shapesOverlap(a, b)
shapesOverlap(a, b) ==
    ~( \/ a.x + a.width < b.x
       \/ b.x + b.width < a.x
       \/ a.y + a.height < b.y
       \/ b.y + b.height < a.y )

\* allShapes.some(s => s.id !== shape.id && shapesOverlap(box, s))
overlapsOther(box, shape, allShapes) ==
    \E i \in 1..Len(allShapes) :
        allShapes[i].id # shape.id /\ shapesOverlap(box, allShapes[i])

\* activeSuggestion: null
NoSuggestion == [id |-> "", priority |-> 0, shapes |-> <<>>]

\* suggestStarterContainer.  A suggestion's id is a uuid in the source; the
\* titles of one generated list are distinct and the active suggestion is
\* replaced with every non-empty list, so the title stands for the id.
suggestStarterContainer(canvasWidth, canvasHeight) ==
    [id |-> "Add Container", priority |-> 100,
     shapes |-> << [type |-> "rect", x |-> StarterPadding, y |-> StarterPadding,
                    width |-> Min(StarterMaxWidth, canvasWidth - StarterPadding * 2),
                    height |-> Min(StarterMaxHeight, canvasHeight - StarterPadding * 2),
                    parentId |-> Null] >>]

\* suggestShapeToRight
suggestShapeToRight(shape, allShapes, canvasWidth) ==
    LET newX == shape.x + shape.width + SuggestGap
        fits == newX + shape.width <= canvasWidth
        overlaps == overlapsOther([x |-> newX, y |-> shape.y,
                                   width |-> shape.width, height |-> shape.height],
                                  shape, allShapes)
    IN [id |-> "Add to Right", priority |-> IF fits /\ ~overlaps THEN 70 ELSE 20,
        shapes |-> IF fits
                   THEN << [type |-> shape.type, x |-> newX, y |-> shape.y,
                            width |-> shape.width, height |-> shape.height,
                            parentId |-> Null] >>
                   ELSE <<>>]

\* suggestShapeBelow
suggestShapeBelow(shape, allShapes, canvasHeight) ==
    LET newY == shape.y + shape.height + SuggestGap
        fits == newY + shape.height <= canvasHeight
        overlaps == overlapsOther([x |-> shape.x, y |-> newY,
                                   width |-> shape.width, height |-> shape.height],
                                  shape, allShapes)
    IN [id |-> "Add Below", priority |-> IF fits /\ ~overlaps THEN 65 ELSE 15,
        shapes |-> IF fits
                   THEN << [type |-> shape.type, x |-> shape.x, y |-> newY,
                            width |-> shape.width, height |-> shape.height,
                            parentId |-> Null] >>
                   ELSE <<>>]

\* suggestNestedElement.  shape.height * 0.3 is (3 * height) / 10, a whole
\* number for the heights of this model (multiples of 10).
suggestNestedElement(shape) ==
    [id |-> "Add Inside", priority |-> 60,
     shapes |-> << [type |-> "rect", x |-> shape.x + NestedPadding,
                    y |-> shape.y + NestedPadding,
                    width |-> shape.width - NestedPadding * 2,
                    height |-> Min(NestedMaxHeight, (3 * shape.height) \div 10),
                    parentId |-> shape.id] >>]

RECURSIVE insertByPriority(_, _)
\* the place a stable descending sort gives s among the sorted earlier ones
insertByPriority(sorted, s) ==
    IF sorted = <<>> THEN <<s>>
    ELSE IF Head(sorted).priority >= s.priority
         THEN <<Head(sorted)>> \o insertByPriority(Tail(sorted), s)
         ELSE <<s>> \o sorted

RECURSIVE sortByPriority(_, _)
\* .sort((a, b) => b.priority - a.priority), a stable sort
sortByPriority(sorted, rest) ==
    IF rest = <<>> THEN sorted
    ELSE sortByPriority(insertByPriority(sorted, Head(rest)), Tail(rest))

\* .filter(s => s.shapes.length > 0)
withShapes(list) == SelectSeq(list, LAMBDA s : Len(s.shapes) > 0)

\* shapes.find(s => s.id === id): the index of the first match, 0 if none
findIndexById(list, id) ==
    IF \E i \in 1..Len(list) : list[i].id = id
    THEN CHOOSE i \in 1..Len(list) :
             list[i].id = id /\ \A j \in 1..(i - 1) : list[j].id # id
    ELSE 0

\* generateSuggestions(shapes, selectedIds, canvasWidth, canvasHeight)
generateSuggestions(allShapes, selected, canvasWidth, canvasHeight) ==
    IF Len(allShapes) = 0
    THEN <<suggestStarterContainer(canvasWidth, canvasHeight)>>
    ELSE LET trigger == IF Len(selected) > 0
                        THEN findIndexById(allShapes, selected[Len(selected)])
                        ELSE Len(allShapes)
         IN IF trigger = 0 THEN <<>>
            ELSE LET triggerShape == allShapes[trigger]
                     beside == <<suggestShapeToRight(triggerShape, allShapes, canvasWidth),
                                 suggestShapeBelow(triggerShape, allShapes, canvasHeight)>>
                     all == IF triggerShape.width > NestedMinWidth
                               /\ triggerShape.height > NestedMinHeight
                            THEN Append(beside, suggestNestedElement(triggerShape))
                            ELSE beside
                     sorted == sortByPriority(<<>>, withShapes(all))
                 IN SubSeq(sorted, 1, Min(3, Len(sorted)))

\* ------------------------------------------------------- suggestion store
\* Math.round(v / 10) * 10
Round10(v) == ((v + 5) \div 10) * 10

\* createPositionKey
createPositionKey(x, y, width, height) ==
    <<Round10(x), Round10(y), Round10(width), Round10(height)>>

\* isPositionUsed (no position is ever rejected in this model)
isPositionUsed(used, s) == createPositionKey(s.x, s.y, s.width, s.height) \in used

\* generateSuggestionsWithPreview, heuristic engine: the list handed to
\* setSuggestions
generatedList(m, selected, used) ==
    LET raw == generateSuggestions(MapValues(m), selected, CanvasWidth, CanvasHeight)
        kept == [i \in 1..Len(raw) |->
                    [raw[i] EXCEPT !.shapes =
                        SelectSeq(raw[i].shapes, LAMBDA sh : ~isPositionUsed(used, sh))]]
    IN withShapes(kept)

\* ----------------------------------------------------------------- inputs
\* the boxes a caller passes to addShape (type and world-space box)
InputShapes ==
    { [type |-> "frame",  x |-> 0, y |-> 0, width |-> 6, height |-> 4],
      [type |-> "frame",  x |-> 1, y |-> 1, width |-> 2, height |-> 2],
      [type |-> "frame",  x |-> 1, y |-> 0, width |-> 1, height |-> 4],
      [type |-> "frame",  x |-> 1, y |-> 1, width |-> 1, height |-> 1],
      [type |-> "rect",   x |-> 1, y |-> 1, width |-> 1, height |-> 1],
      [type |-> "circle", x |-> 0, y |-> 0, width |-> 1, height |-> 1] }

\* the boxes of InputShapes on the row y = 0, for the store driven without
\* any check (the store's links do not read the geometry)
StoreInputs == {box \in InputShapes : box.y = 0}

\* ids issued so far (present or deleted)
IssuedIds == 1..(nextId - 1)

\* every stored coordinate is within the modelled range
InRange(m) ==
    \A id \in DOMAIN m :
        /\ Abs(m[id].x) <= MaxCoord
        /\ Abs(m[id].y) <= MaxCoord
        /\ Len(m[id].children) <= MaxChildren

\* ShapeCreateInput
MkInput(box, parentId) ==
    [type |-> box.type, x |-> box.x, y |-> box.y,
     width |-> box.width, height |-> box.height, parentId |-> parentId]

\* { ...shape, ...changes }
Merge(shape, changes) ==
    [f \in (DOMAIN shape) \cup (DOMAIN changes) |->
        IF f \in DOMAIN changes THEN changes[f] ELSE shape[f]]

\* ---------------------------------------------------------------- history
\* history: [], historyIndex: -1, the history not followed
NoHistory == [kept |-> FALSE, actions |-> <<>>, historyIndex |-> -1]

\* history: [], historyIndex: -1
EmptyHistory == [kept |-> TRUE, actions |-> <<>>, historyIndex |-> -1]

\* history: [...state.history.slice(0, state.historyIndex + 1), action],
\* historyIndex: state.historyIndex + 1
pushHistory(h, action) ==
    IF h.kept
    THEN [h EXCEPT !.actions = Append(SubSeq(h.actions, 1, h.historyIndex + 1), action),
                   !.historyIndex = h.historyIndex + 1]
    ELSE h

\* addShape: the history after the call (the timestamp is left out)
addShapeHistory(h, m, id, input) ==
    pushHistory(h, [type |-> "create-shape", shapeId |-> id,
                    newState |-> addShapeMap(m, id, input)[id]])

\* updateShape: the history after the call (the timestamp is left out)
updateShapeHistory(h, m, id, updates) ==
    IF id \notin DOMAIN m THEN h
    ELSE pushHistory(h, [type |-> "update-shape", shapeId |-> id,
                         previousState |-> m[id],
                         newState |-> Merge(m[id], updates)])

\* ------------------------------------------------- Gemini suggestion engine
\* RATE_LIMITS
RPM == 10
RPD == 1500
TPM == 250000
TPD == 1000000
\* the minute and the day of the reset times, in milliseconds
MinuteMs == 60000
DayMs == 86400000
\* recordUsage(500): the tokens booked for one request
TokenEstimate == 500

\* the module after loading: no client, counters and reset times 0.  now is
\* Date.now(), counted from the loading of the module; awaiting is the
\* number of generateGeminiSuggestions calls suspended at `await
\* generateContent`; windowRequests is a history variable, the number of
\* generateContent requests issued since the minute counters were last reset
GeminiLoaded ==
    [client |-> FALSE,
     minuteRequestCount |-> 0, dayRequestCount |-> 0,
     minuteTokenCount |-> 0, dayTokenCount |-> 0,
     minuteResetTime |-> 0, dayResetTime |-> 0,
     now |-> 0, awaiting |-> 0, windowRequests |-> 0]

resetRateLimits(g) ==
    [g EXCEPT !.minuteRequestCount = 0, !.dayRequestCount = 0,
              !.minuteTokenCount = 0, !.dayTokenCount = 0,
              !.minuteResetTime = g.now + MinuteMs,
              !.dayResetTime = g.now + DayMs,
              !.windowRequests = 0]

\* autoInitialize(), the API key being configured
autoInitialize(g) ==
    IF ~g.client THEN resetRateLimits([g EXCEPT !.client = TRUE]) ELSE g

\* getRateLimitStatus: "Reset minute counters if needed"
resetMinuteIfNeeded(g) ==
    IF g.now > g.minuteResetTime
    THEN [g EXCEPT !.minuteRequestCount = 0, !.minuteTokenCount = 0,
                   !.minuteResetTime = g.now + MinuteMs, !.windowRequests = 0]
    ELSE g

\* getRateLimitStatus: "Reset day counters if needed"
resetDayIfNeeded(g) ==
    IF g.now > g.dayResetTime
    THEN [g EXCEPT !.dayRequestCount = 0, !.dayTokenCount = 0,
                   !.dayResetTime = g.now + DayMs]
    ELSE g

\* getRateLimitStatus(): the counters after the call and canMakeRequest
getRateLimitStatus(g) ==
    LET after == resetDayIfNeeded(resetMinuteIfNeeded(g))
    IN [after |-> after,
        canMakeRequest |-> /\ after.minuteRequestCount < RPM
                           /\ after.dayRequestCount < RPD
                           /\ after.minuteTokenCount < TPM
                           /\ after.dayTokenCount < TPD]

\* recordUsage(tokenCount)
recordUsage(g, tokenCount) ==
    [g EXCEPT !.minuteRequestCount = @ + 1, !.dayRequestCount = @ + 1,
              !.minuteTokenCount = @ + tokenCount, !.dayTokenCount = @ + tokenCount]

\* generateGeminiSuggestions up to its await: without a client or without
\* canMakeRequest it returns an error; otherwise generateContent is called
\* and the call is suspended
generateUpToAwait(g) ==
    IF ~g.client THEN g
    ELSE LET status == getRateLimitStatus(g)
         IN IF ~status.canMakeRequest THEN status.after
            ELSE [status.after EXCEPT !.awaiting = @ + 1, !.windowRequests = @ + 1]

\* ------------------------------------------------------------------ state
\* no call yet
NoCall == [fn |-> "none"]

\* new SnapEngine(): threshold = 8, enabled = true; nothing called
InitEngines ==
    /\ snapEngine = [threshold |-> SnapThreshold, enabled |-> TRUE]
    /\ callLog = NoCall
    /\ gemini = GeminiLoaded

\* no drag and drop yet
NoDragLog == [changed |-> {}, reflowed |-> {}]

Init ==
    /\ shapes = <<>>
    /\ shapeOrder = <<>>
    /\ selectedIds = <<>>
    /\ nextId = 1
    /\ suggestions = <<>>
    /\ activeSuggestion = NoSuggestion
    /\ usedPositions = {}
    /\ draggingId = Null
    /\ dragMoved = FALSE
    /\ pendingFrames = <<>>
    /\ dragLog = NoDragLog
    /\ cascadeLog = <<>>
    /\ history = NoHistory
    /\ InitEngines

\* addShape(input)
AddShape(box, parentId) ==
    /\ nextId <= MaxShapes
    /\ shapes' = addShapeMap(shapes, nextId, MkInput(box, parentId))
    /\ InRange(shapes')
    /\ shapeOrder' = Append(shapeOrder, nextId)
    /\ nextId' = nextId + 1
    /\ history' = addShapeHistory(history, shapes, nextId, MkInput(box, parentId))
    /\ UNCHANGED <<selectedIds, canvasVars>>
    /\ UNCHANGED engineVars

\* nestShape(childId, parentId)
NestShape(childId, parentId) ==
    /\ shapes' = nestShapeMap(shapes, childId, parentId)
    /\ InRange(shapes')
    /\ UNCHANGED <<shapeOrder, selectedIds, nextId, canvasVars>>
    /\ UNCHANGED <<history, engineVars>>

\* unnestShape(childId)
UnnestShape(childId) ==
    /\ shapes' = unnestShapeMap(shapes, childId)
    /\ InRange(shapes')
    /\ UNCHANGED <<shapeOrder, selectedIds, nextId, canvasVars>>
    /\ UNCHANGED <<history, engineVars>>

\* deleteShape(id)
DeleteShape(id) ==
    /\ id \in DOMAIN shapes
    /\ shapes' = deleteShapeMap(shapes, id)
    /\ shapeOrder' = SeqFilterOut(shapeOrder, id)
    /\ selectedIds' = SeqFilterOut(selectedIds, id)
    /\ UNCHANGED <<nextId, canvasVars>>
    /\ UNCHANGED <<history, engineVars>>

\* the shape store driven directly: any call with any argument
Next ==
    \/ \E box \in StoreInputs, parentId \in {Null} \cup IssuedIds : AddShape(box, parentId)
    \/ \E childId \in IssuedIds, parentId \in IssuedIds : NestShape(childId, parentId)
    \/ \E childId \in IssuedIds : UnnestShape(childId)
    \/ \E id \in IssuedIds : DeleteShape(id)

Spec == Init /\ [][Next]_vars

\* a caller that checks canNest before it nests
NestChecked(childId, parentId) ==
    /\ canNest(childId, parentId, shapes)
    /\ NestShape(childId, parentId)

\* the frames of the map
FrameIds == {id \in DOMAIN shapes : shapes[id].type = "frame"}

\* the store driven by callers that keep to the rules: a shape is created at
\* the root or under a frame, and nested only after canNest
NextGuarded ==
    \/ \E box \in InputShapes, parentId \in {Null} \cup FrameIds : AddShape(box, parentId)
    \/ \E childId \in IssuedIds, parentId \in IssuedIds : NestChecked(childId, parentId)
    \/ \E childId \in IssuedIds : UnnestShape(childId)

SpecGuarded == Init /\ [][NextGuarded]_vars

\* ----------------------------------------------------------------- canvas
\* what is drawn on the canvas: type and box of the preview shape
DrawBoxes ==
    { [type |-> "frame", x |-> 0,  y |-> 0,  width |-> 240, height |-> 160],
      [type |-> "frame", x |-> 20, y |-> 20, width |-> 40,  height |-> 40],
      [type |-> "rect",  x |-> 0,  y |-> 0,  width |-> 240, height |-> 160] }

\* where a dragged node is reported (in its parent's coordinate space)
DragPositions == { <<24, 24>>, <<300, 0>> }

\* what a transformed node reports: a corner handle pulled across the
\* opposite corner gives negative scales; a released handle that was not
\* moved gives the scales 1
Transforms ==
    { [scaleX |-> -1, scaleY |-> -1, rotation |-> 0],
      [scaleX |-> 1,  scaleY |-> 1,  rotation |-> 0] }

\* setSuggestions(list), autoShowSuggestions being true
setSuggestions(list) ==
    /\ suggestions' = list
    /\ activeSuggestion' = IF Len(list) > 0 THEN list[1] ELSE activeSuggestion

\* the debounced generateSuggestions() a handler ends with; it runs on the
\* state the handler leaves
generateSuggestionsAfter == setSuggestions(generatedList(shapes', selectedIds', usedPositions'))

\* handleMouseUp with a preview shape being drawn
MouseUp(box) ==
    /\ draggingId = Null
    /\ box.width > MinDrawSize /\ box.height > MinDrawSize
    /\ nextId <= MaxCanvasShapes
    /\ LET temp == [id |-> Null, type |-> box.type, x |-> box.x, y |-> box.y,
                    width |-> box.width, height |-> box.height]
           potentialParent == findPotentialParent(temp, MapValues(shapes))
       IN /\ shapes' = addShapeMap(shapes, nextId, MkInput(box, potentialParent))
          /\ history' = addShapeHistory(history, shapes, nextId,
                                        MkInput(box, potentialParent))
    /\ shapeOrder' = Append(shapeOrder, nextId)
    /\ selectedIds' = <<nextId>>
    /\ nextId' = nextId + 1
    /\ UNCHANGED <<usedPositions, draggingId, dragMoved, flowVars>>
    /\ generateSuggestionsAfter
    /\ UNCHANGED engineVars

\* handleShapeDragStart(id)
ShapeDragStart(id) ==
    /\ draggingId = Null
    /\ id \in DOMAIN shapes
    /\ draggingId' = id
    /\ dragMoved' = FALSE
    /\ dragLog' = NoDragLog
    /\ selectedIds' = IF id \in SeqElems(selectedIds) THEN selectedIds ELSE <<id>>
    /\ UNCHANGED <<shapes, shapeOrder, nextId, suggestions, activeSuggestion, usedPositions,
                   pendingFrames, cascadeLog>>
    /\ UNCHANGED <<history, engineVars>>

\* handleShapeDragMove(id, x, y)
ShapeDragMove(id, x, y) ==
    /\ draggingId = id
    /\ id \in DOMAIN shapes
    /\ LET shape == shapes[id]
           hasParent == shape.parentId # Null /\ shape.parentId \in DOMAIN shapes
           worldX == IF hasParent THEN shapes[shape.parentId].x + x ELSE x
           worldY == IF hasParent THEN shapes[shape.parentId].y + y ELSE y
           otherShapes == SelectSeq(MapValues(shapes),
                                    LAMBDA o : o.id # id /\ o.id # shape.parentId)
           snapResult == snapShape([shape EXCEPT !.x = worldX, !.y = worldY],
                                   worldX, worldY, otherShapes, CanvasWidth, CanvasHeight)
           finalX == IF hasParent THEN snapResult[1] - shapes[shape.parentId].x
                     ELSE snapResult[1]
           finalY == IF hasParent THEN snapResult[2] - shapes[shape.parentId].y
                     ELSE snapResult[2]
       IN shapes' = MapSet(shapes, id, [shape EXCEPT !.x = finalX, !.y = finalY])
    /\ dragMoved' = TRUE
    /\ UNCHANGED <<shapeOrder, selectedIds, nextId, suggestions, activeSuggestion,
                   usedPositions, draggingId, flowVars>>
    /\ UNCHANGED <<history, engineVars>>

\* handleShapeDragEnd: the shapes map it leaves, no shape carrying a layout
dragEndMap(m, id) ==
    LET shape == m[id]
        hasParent == shape.parentId # Null /\ shape.parentId \in DOMAIN m
        shapeWorldX == IF hasParent THEN m[shape.parentId].x + shape.x ELSE shape.x
        shapeWorldY == IF hasParent THEN m[shape.parentId].y + shape.y ELSE shape.y
        shapeInWorldCoords == [shape EXCEPT !.x = shapeWorldX, !.y = shapeWorldY]
        potentialParent == findPotentialParent(shapeInWorldCoords, MapValues(m))
        isInsideCurrentParent ==
            /\ shapeWorldX >= m[shape.parentId].x
            /\ shapeWorldY >= m[shape.parentId].y
            /\ shapeWorldX + shape.width <= m[shape.parentId].x + m[shape.parentId].width
            /\ shapeWorldY + shape.height <= m[shape.parentId].y + m[shape.parentId].height
    IN IF hasParent /\ ~isInsideCurrentParent /\ potentialParent = Null
       THEN unnestShapeMap(m, id)
       ELSE IF potentialParent # Null /\ potentialParent # shape.parentId
            THEN nestShapeMap(m, id, potentialParent)
            ELSE m

\* handleShapeDragEnd(id, mouseX, mouseY)
ShapeDragEnd(id) ==
    /\ draggingId = id
    /\ dragMoved
    /\ id \in DOMAIN shapes
    /\ draggingId' = Null
    /\ dragMoved' = FALSE
    /\ shapes' = dragEndMap(shapes, id)
    /\ UNCHANGED <<shapeOrder, selectedIds, nextId, usedPositions, flowVars>>
    /\ generateSuggestionsAfter
    /\ UNCHANGED <<history, engineVars>>

\* handleTransformEnd(id, node), the node reporting newX, newY, scaleX,
\* scaleY and newRotation; the Transformer is on a selected shape
TransformEnd(id, newX, newY, scaleX, scaleY, newRotation) ==
    /\ draggingId = Null
    /\ id \in DOMAIN shapes
    /\ id \in SeqElems(selectedIds)
    /\ LET shape == shapes[id]
           newWidth == Max(MinSize, shape.width * scaleX)
           newHeight == Max(MinSize, shape.height * scaleY)
       IN shapes' = MapSet(shapes, id,
                           [shape EXCEPT !.x = newX, !.y = newY,
                                         !.width = newWidth, !.height = newHeight,
                                         !.rotation = newRotation])
    /\ UNCHANGED <<shapeOrder, selectedIds, nextId, usedPositions, draggingId, dragMoved,
                   flowVars>>
    /\ generateSuggestionsAfter
    /\ UNCHANGED <<history, engineVars>>

\* handleNextSuggestion (Tab)
NextSuggestion ==
    /\ Len(suggestions) > 0
    /\ LET currentIndex == IF activeSuggestion # NoSuggestion
                           THEN findIndexById(suggestions, activeSuggestion.id)
                           ELSE 0
       IN activeSuggestion' = suggestions[(currentIndex % Len(suggestions)) + 1]
    /\ UNCHANGED <<shapes, shapeOrder, selectedIds, nextId, suggestions,
                   usedPositions, draggingId, dragMoved, flowVars>>
    /\ UNCHANGED <<history, engineVars>>

\* acceptSuggestion(activeSuggestion.id) finds the suggestion in the list
CanAccept ==
    /\ activeSuggestion # NoSuggestion
    /\ findIndexById(suggestions, activeSuggestion.id) # 0
    /\ nextId <= MaxCanvasShapes

\* acceptSuggestion: the list without the accepted suggestion
acceptSuggestion ==
    /\ suggestions' = SelectSeq(suggestions, LAMBDA s : s.id # activeSuggestion.id)
    /\ activeSuggestion' = NoSuggestion

\* the one shape of the accepted suggestion (each suggestion of the heuristic
\* engine that reaches the list has exactly one)
AcceptedShape == suggestions[findIndexById(suggestions, activeSuggestion.id)].shapes[1]

\* handleGhostShapeAccept: click on the ghost shape
GhostShapeAccept ==
    /\ draggingId = Null
    /\ CanAccept
    /\ acceptSuggestion
    /\ LET suggestedShape == AcceptedShape
       IN /\ usedPositions' = usedPositions \cup
                 {createPositionKey(suggestedShape.x, suggestedShape.y,
                                    suggestedShape.width, suggestedShape.height)}
          /\ shapes' = addShapeMap(shapes, nextId, suggestedShape)
          /\ history' = addShapeHistory(history, shapes, nextId, suggestedShape)
    /\ shapeOrder' = Append(shapeOrder, nextId)
    /\ nextId' = nextId + 1
    /\ UNCHANGED <<selectedIds, draggingId, dragMoved, flowVars>>
    /\ UNCHANGED engineVars

\* handleAcceptSuggestion: Enter with an active suggestion
KeyAccept ==
    /\ CanAccept
    /\ acceptSuggestion
    /\ LET suggestedShape == AcceptedShape
           added == addShapeMap(shapes, nextId, [suggestedShape EXCEPT !.parentId = Null])
       IN /\ shapes' = IF suggestedShape.parentId # Null
                       THEN nestShapeMap(added, nextId, suggestedShape.parentId)
                       ELSE added
          /\ history' = addShapeHistory(history, shapes, nextId,
                                        [suggestedShape EXCEPT !.parentId = Null])
    /\ shapeOrder' = Append(shapeOrder, nextId)
    /\ nextId' = nextId + 1
    /\ UNCHANGED <<selectedIds, usedPositions, draggingId, dragMoved, flowVars>>
    /\ UNCHANGED engineVars

\* the canvas driven by its user: draw, drag and drop, transform, and the
\* suggestions
NextCanvas ==
    \/ \E box \in DrawBoxes : MouseUp(box)
    \/ \E id \in DOMAIN shapes : ShapeDragStart(id)
    \/ \E id \in DOMAIN shapes, pos \in DragPositions : ShapeDragMove(id, pos[1], pos[2])
    \/ \E id \in DOMAIN shapes : ShapeDragEnd(id)
    \/ \E id \in DOMAIN shapes, t \in Transforms :
           TransformEnd(id, shapes[id].x, shapes[id].y, t.scaleX, t.scaleY, t.rotation)
    \/ NextSuggestion
    \/ GhostShapeAccept
    \/ KeyAccept

SpecCanvas == Init /\ [][NextCanvas]_vars

\* ---------------------------------------------------------- layout engine
\* Lengths of the layout inputs are multiples of 24 pixels, so that the
\* quotients the engine takes over them (by 2, by the number of children, by
\* columns or rows) are whole numbers and the integer quotient below is the
\* engine's real-number division.
Quot(a, b) == a \div b

\* !layout || layout.mode === 'free', and the missing flex / grid settings
HasLayout(s) == "layout" \in DOMAIN s
HasFlex(s) == HasLayout(s) /\ s.layout.mode = "flex" /\ "flex" \in DOMAIN s.layout
HasGrid(s) == HasLayout(s) /\ s.layout.mode = "grid" /\ "grid" \in DOMAIN s.layout

RECURSIVE freeLoop(_, _, _)
\* calculateFreeLayout: the loop over the children, positions.set per child
freeLoop(children, i, positions) ==
    IF i > Len(children) THEN positions
    ELSE freeLoop(children, i + 1,
                  MapSet(positions, children[i].id,
                         [x |-> children[i].x, y |-> children[i].y]))

\* calculateFreeLayout
calculateFreeLayout(children) == freeLoop(children, 1, <<>>)

isRowDirection(direction) == direction \in {"row", "row-reverse"}
isReverseDirection(direction) == direction \in {"row-reverse", "column-reverse"}

RECURSIVE sumMainSize(_, _)
\* calculateFlexLayout: the children's sizes along the main axis, summed
sumMainSize(children, isRow) ==
    IF children = <<>> THEN 0
    ELSE (IF isRow THEN Head(children).width ELSE Head(children).height)
         + sumMainSize(Tail(children), isRow)

\* calculateFlexLayout: totalMainSize, gaps included
totalMainSize(children, isRow, gap) ==
    sumMainSize(children, isRow) + gap * (Len(children) - 1)

\* calculateFlexLayout: mainStart by justifyContent
flexMainStart(justifyContent, mainAxisSize, total, gap, n) ==
    CASE justifyContent = "flex-start" -> 0
      [] justifyContent = "flex-end" -> mainAxisSize - total
      [] justifyContent = "center" -> Quot(mainAxisSize - total, 2)
      [] justifyContent = "space-between" -> 0
      [] justifyContent = "space-around" ->
             Quot(Quot(mainAxisSize - total + gap * (n - 1), n), 2)
      [] justifyContent = "space-evenly" ->
             Quot(mainAxisSize - total + gap * (n - 1), n + 1)

\* the same with the configured gap kept for space-between
flexMainGapKeepsGap(justifyContent, mainAxisSize, total, gap, n) ==
    CASE justifyContent = "space-around" ->
             Quot(mainAxisSize - total + gap * (n - 1), n)
      [] justifyContent = "space-evenly" ->
             Quot(mainAxisSize - total + gap * (n - 1), n + 1)
      [] OTHER -> gap

\* calculateFlexLayout: mainGap by justifyContent
flexMainGap(justifyContent, mainAxisSize, total, gap, n) ==
    CASE justifyContent = "space-between" ->
             IF n > 1 THEN Quot(mainAxisSize - total + gap * (n - 1), n - 1)
             ELSE 0
      [] justifyContent = "space-around" ->
             Quot(mainAxisSize - total + gap * (n - 1), n)
      [] justifyContent = "space-evenly" ->
             Quot(mainAxisSize - total + gap * (n - 1), n + 1)
      [] OTHER -> gap

\* calculateFlexLayout: crossPos by alignItems
flexCrossPos(alignItems, crossAxisSize, childCrossSize) ==
    CASE alignItems = "flex-end" -> crossAxisSize - childCrossSize
      [] alignItems = "center" -> Quot(crossAxisSize - childCrossSize, 2)
      [] OTHER -> 0

\* calculateFlexLayout: pos.  stretchSize is undefined unless alignItems is
\* stretch; an undefined width or height is a field the record does not have
flexPosition(isRow, alignItems, padding, currentMain, crossPos, crossAxisSize) ==
    IF isRow
    THEN IF alignItems = "stretch"
         THEN [x |-> padding.left + currentMain, y |-> padding.top + crossPos,
               height |-> crossAxisSize]
         ELSE [x |-> padding.left + currentMain, y |-> padding.top + crossPos]
    ELSE IF alignItems = "stretch"
         THEN [x |-> padding.left + crossPos, y |-> padding.top + currentMain,
               width |-> crossAxisSize]
         ELSE [x |-> padding.left + crossPos, y |-> padding.top + currentMain]

\* the same with the gap left out of the step
flexAdvanceNoGap(currentMain, childMainSize, mainGap) == currentMain + childMainSize

\* calculateFlexLayout: currentMain += childMainSize + mainGap
flexAdvance(currentMain, childMainSize, mainGap) == currentMain + childMainSize + mainGap

RECURSIVE flexLoop(_, _, _, _, _, _, _, _, _)
\* calculateFlexLayout: the loop over orderedChildren
flexLoop(ordered, i, currentMain, mainGap, isRow, alignItems, padding, crossAxisSize, positions) ==
    IF i > Len(ordered) THEN positions
    ELSE LET child == ordered[i]
             childMainSize == IF isRow THEN child.width ELSE child.height
             childCrossSize == IF isRow THEN child.height ELSE child.width
             crossPos == flexCrossPos(alignItems, crossAxisSize, childCrossSize)
             pos == flexPosition(isRow, alignItems, padding, currentMain, crossPos, crossAxisSize)
         IN flexLoop(ordered, i + 1, flexAdvance(currentMain, childMainSize, mainGap),
                     mainGap, isRow, alignItems, padding, crossAxisSize,
                     MapSet(positions, child.id, pos))

\* [...children].reverse()
Reverse(s) == [i \in 1..Len(s) |-> s[Len(s) + 1 - i]]

\* calculateFlexLayout
calculateFlexLayout(parent, children, flex) ==
    IF Len(children) = 0 THEN <<>>
    ELSE LET padding == flex.padding
             availableWidth == parent.width - padding.left - padding.right
             availableHeight == parent.height - padding.top - padding.bottom
             isRow == isRowDirection(flex.direction)
             total == totalMainSize(children, isRow, flex.gap)
             mainAxisSize == IF isRow THEN availableWidth ELSE availableHeight
             crossAxisSize == IF isRow THEN availableHeight ELSE availableWidth
             n == Len(children)
             mainStart == flexMainStart(flex.justifyContent, mainAxisSize, total, flex.gap, n)
             mainGap == flexMainGap(flex.justifyContent, mainAxisSize, total, flex.gap, n)
             ordered == IF isReverseDirection(flex.direction) THEN Reverse(children)
                        ELSE children
         IN flexLoop(ordered, 1, mainStart, mainGap, isRow, flex.alignItems,
                     padding, crossAxisSize, <<>>)

\* the same with the row and the column swapped in row flow
gridCellColumnFirst(i, columns, rows, autoFlow) ==
    [col |-> i \div rows, row |-> i % rows]

\* calculateGridLayout: the cell of the child at index i (from 0)
gridCell(i, columns, rows, autoFlow) ==
    IF autoFlow = "column"
    THEN [col |-> i \div rows, row |-> i % rows]
    ELSE [row |-> i \div columns, col |-> i % columns]

\* the same with the child's stored position added to the cell's
gridOverflowShifted(child) == [x |-> child.x + child.width, y |-> child.y]

\* calculateGridLayout: the position of a child outside the declared grid
gridOverflow(child) == [x |-> child.x, y |-> child.y]

RECURSIVE gridLoop(_, _, _, _, _, _)
\* calculateGridLayout: the loop over the children (i from 0)
gridLoop(children, i, grid, cellWidth, cellHeight, positions) ==
    IF i >= Len(children) THEN positions
    ELSE LET child == children[i + 1]
             cell == gridCell(i, grid.columns, grid.rows, grid.autoFlow)
             cellX == grid.padding.left + cell.col * (cellWidth + grid.columnGap)
             cellY == grid.padding.top + cell.row * (cellHeight + grid.rowGap)
             pos == IF cell.col >= grid.columns \/ cell.row >= grid.rows
                    THEN gridOverflow(child)
                    ELSE [x |-> cellX + Quot(cellWidth - child.width, 2),
                          y |-> cellY + Quot(cellHeight - child.height, 2)]
         IN gridLoop(children, i + 1, grid, cellWidth, cellHeight,
                     MapSet(positions, child.id, pos))

\* calculateGridLayout
calculateGridLayout(parent, children, grid) ==
    IF Len(children) = 0 THEN <<>>
    ELSE LET availableWidth == parent.width - grid.padding.left - grid.padding.right
             availableHeight == parent.height - grid.padding.top - grid.padding.bottom
             cellWidth == Quot(availableWidth - grid.columnGap * (grid.columns - 1),
                               grid.columns)
             cellHeight == Quot(availableHeight - grid.rowGap * (grid.rows - 1),
                                grid.rows)
         IN gridLoop(children, 0, grid, cellWidth, cellHeight, <<>>)

\* calculateChildPositions: the positions map of the result
calculateChildPositions(parent, children) ==
    IF ~HasLayout(parent) \/ parent.layout.mode = "free"
    THEN calculateFreeLayout(children)
    ELSE IF HasFlex(parent)
    THEN calculateFlexLayout(parent, children, parent.layout.flex)
    ELSE IF HasGrid(parent)
    THEN calculateGridLayout(parent, children, parent.layout.grid)
    ELSE calculateFreeLayout(children)


RECURSIVE lookupAll(_, _)
\* ids.map((id) => shapes.get(id)).filter(Boolean)
lookupAll(m, ids) ==
    IF ids = <<>> THEN <<>>
    ELSE IF Head(ids) \in DOMAIN m
         THEN <<m[Head(ids)]>> \o lookupAll(m, Tail(ids))
         ELSE lookupAll(m, Tail(ids))

\* parent.children.map((childId) => shapes.get(childId)).filter(Boolean)
childShapes(m, parent) == lookupAll(m, parent.children)

\* the changes written for one child keep only x and y (pos?.x ?? child.x)
positionChanges(child, positions) ==
    IF child.id \in DOMAIN positions
    THEN [x |-> positions[child.id].x, y |-> positions[child.id].y]
    ELSE [x |-> child.x, y |-> child.y]

\* children.map((child) => ({ id: child.id, changes: { x, y } }))
layoutUpdates(children, positions) ==
    [i \in 1..Len(children) |->
        [id |-> children[i].id, changes |-> positionChanges(children[i], positions)]]

RECURSIVE batchUpdate(_, _)
\* batchUpdate: the shapes map after the updates, applied in order
batchUpdate(m, updates) ==
    IF updates = <<>> THEN m
    ELSE LET u == Head(updates)
         IN batchUpdate(IF u.id \in DOMAIN m
                        THEN MapSet(m, u.id, Merge(m[u.id], u.changes))
                        ELSE m,
                        Tail(updates))

\* the positions of a frame's children computed and stored
relayout(m, parent) ==
    LET children == childShapes(m, parent)
    IN batchUpdate(m, layoutUpdates(children, calculateChildPositions(parent, children)))

\* oldParent.layout && oldParent.layout.mode !== 'free'
hasActiveLayout(s) == HasLayout(s) /\ s.layout.mode # "free"

\* handleShapeDragEnd: applyLayoutPositions
applyLayoutPositions(m, parentId) ==
    IF parentId \notin DOMAIN m \/ ~hasActiveLayout(m[parentId]) THEN m
    ELSE relayout(m, m[parentId])

\* the same, a shape made of the updates when the id is not in the map
updateShapeMapUpserts(m, id, updates) ==
    MapSet(m, id, IF id \in DOMAIN m THEN Merge(m[id], updates) ELSE updates)

\* updateShape
updateShapeMap(m, id, updates) ==
    IF id \notin DOMAIN m THEN m ELSE MapSet(m, id, Merge(m[id], updates))

\* handleLayoutModeChange: { ...selectedFrame.layout, mode }
withMode(s, mode) ==
    IF HasLayout(s) THEN Merge(s.layout, [mode |-> mode]) ELSE [mode |-> mode]

\* ------------------------------------------------- layout: inputs, driver
\* number of columns and of rows of a grid
MaxGrid == 2

LayoutModes == {"free", "flex", "grid"}

Paddings ==
    { [top |-> 0, right |-> 0, bottom |-> 0, left |-> 0],
      [top |-> 24, right |-> 48, bottom |-> 0, left |-> 24] }

\* FlexLayoutSettings (wrap, rowGap and columnGap are not read by the engine)
FlexSettings ==
    [direction : {"row", "column", "row-reverse", "column-reverse"},
     justifyContent : {"flex-start", "flex-end", "center", "space-between",
                       "space-around", "space-evenly"},
     alignItems : {"flex-start", "flex-end", "center", "stretch", "baseline"},
     gap : {0, 24}, padding : Paddings]

\* GridLayoutSettings
GridSettings ==
    [columns : 1..MaxGrid, rows : 1..MaxGrid, columnGap : {0, 24},
     rowGap : {0, 48}, autoFlow : {"row", "column", "dense"}, padding : Paddings]

\* LayoutSettings; a frame with no layout at all is the fourth case
Layouts ==
    {[mode |-> "flex", flex |-> f] : f \in FlexSettings}
    \cup {[mode |-> "grid", grid |-> g] : g \in GridSettings}
    \cup {[mode |-> "free"]}

\* the frames that carry the children: world-space box
LayoutFrameBoxes ==
    { [type |-> "frame", x |-> 0, y |-> 0, width |-> 240, height |-> 144],
      [type |-> "frame", x |-> 0, y |-> 0, width |-> 96, height |-> 96] }

\* the children: box relative to the frame
LayoutChildBoxes ==
    { [type |-> "rect", x |-> 0, y |-> 0, width |-> 24, height |-> 48],
      [type |-> "circle", x |-> 120, y |-> 72, width |-> 48, height |-> 24] }

\* a frame (id 1) and its children (ids 2, 3, ...) as addShape leaves them
layoutScene(frameBox, kids) ==
    [id \in 1..(Len(kids) + 1) |->
        IF id = 1
        THEN [createDefaultShape(1, MkInput(frameBox, Null)) EXCEPT
                 !.children = [i \in 1..Len(kids) |-> i + 1]]
        ELSE [createDefaultShape(id, MkInput(kids[id - 1], 1)) EXCEPT !.parentId = 1]]

InitLayout ==
    /\ \E frameBox \in LayoutFrameBoxes,
          kids \in UNION {[1..n -> LayoutChildBoxes] : n \in 0..MaxChildren} :
          \/ shapes = layoutScene(frameBox, kids)
          \/ \E layout \in Layouts :
                shapes = updateShapeMap(layoutScene(frameBox, kids), 1, [layout |-> layout])
    /\ shapeOrder = [i \in 1..Cardinality(DOMAIN shapes) |-> i]
    /\ selectedIds = <<1>>
    /\ nextId = Cardinality(DOMAIN shapes) + 1
    /\ suggestions = <<>>
    /\ activeSuggestion = NoSuggestion
    /\ usedPositions = {}
    /\ draggingId = Null
    /\ dragMoved = FALSE
    /\ pendingFrames = <<>>
    /\ dragLog = NoDragLog
    /\ cascadeLog = <<>>
    /\ history = NoHistory
    /\ InitEngines

\* the positions of a layout frame's children stored
ApplyLayoutPositions(parentId) ==
    /\ shapes' = applyLayoutPositions(shapes, parentId)
    /\ UNCHANGED <<shapeOrder, selectedIds, nextId, canvasVars>>
    /\ UNCHANGED <<history, engineVars>>

\* PropertiesPanel: handleLayoutModeChange(mode) on the selected frame
LayoutModeChange(mode) ==
    /\ Len(selectedIds) = 1
    /\ selectedIds[1] \in DOMAIN shapes
    /\ shapes[selectedIds[1]].type = "frame"
    /\ shapes' = updateShapeMap(shapes, selectedIds[1],
                                [layout |-> withMode(shapes[selectedIds[1]], mode)])
    /\ history' = updateShapeHistory(history, shapes, selectedIds[1],
                                     [layout |-> withMode(shapes[selectedIds[1]], mode)])
    /\ UNCHANGED <<shapeOrder, selectedIds, nextId, canvasVars>>
    /\ UNCHANGED engineVars

NextLayout ==
    \/ \E parentId \in DOMAIN shapes : ApplyLayoutPositions(parentId)
    \/ \E mode \in LayoutModes : LayoutModeChange(mode)

SpecLayout == InitLayout /\ [][NextLayout]_vars

\* ------------------------------------------- drag and drop in layout frames
RECURSIVE flexInsertionIndex(_, _, _, _, _, _)
\* handleShapeDragEnd: insertionIndex in a flex frame (i from 0)
flexInsertionIndex(existingChildren, i, pos, draggedMainPos, isFlexRow, gap) ==
    IF i >= Len(existingChildren) THEN Len(existingChildren)
    ELSE LET child == existingChildren[i + 1]
             childSize == IF isFlexRow THEN child.width ELSE child.height
         IN IF draggedMainPos < pos + Quot(childSize, 2) THEN i
            ELSE flexInsertionIndex(existingChildren, i + 1, pos + childSize + gap,
                                    draggedMainPos, isFlexRow, gap)

\* handleShapeDragEnd: insertionIndex in a grid frame.  Math.ceil(a / b) is
\* (a + b - 1) div b and Math.floor(a / b) is a div b
gridInsertionIndex(potentialParent, existingChildren, relDropX, relDropY) ==
    LET grid == potentialParent.layout.grid
        padding == grid.padding
        columns == grid.columns
        availableWidth == potentialParent.width - padding.left - padding.right
        availableHeight == potentialParent.height - padding.top - padding.bottom
        numRows == (Len(existingChildren) + 1 + columns - 1) \div columns
        cellWidth == Quot(availableWidth - grid.columnGap * (columns - 1), columns)
        cellHeight == Quot(availableHeight - grid.rowGap * (numRows - 1), numRows)
        col == Max(0, Min(columns - 1,
                          (relDropX - padding.left) \div (cellWidth + grid.columnGap)))
        row == Max(0, (relDropY - padding.top) \div (cellHeight + grid.rowGap))
    IN Min(row * columns + col, Len(existingChildren))

\* handleShapeDragEnd: insertionIndex, -1 unless the frame has a flex or grid
\* layout
insertionIndexOf(m, shape, shapeWorldX, shapeWorldY, potentialParent) ==
    LET existingChildren == childShapes(m, potentialParent)
        relDropX == shapeWorldX - potentialParent.x + Quot(shape.width, 2)
        relDropY == shapeWorldY - potentialParent.y + Quot(shape.height, 2)
    IN IF ~hasActiveLayout(potentialParent) THEN -1
       ELSE IF HasFlex(potentialParent)
       THEN LET flex == potentialParent.layout.flex
                isFlexRow == isRowDirection(flex.direction)
            IN flexInsertionIndex(existingChildren, 0,
                                  IF isFlexRow THEN flex.padding.left ELSE flex.padding.top,
                                  IF isFlexRow THEN relDropX ELSE relDropY,
                                  isFlexRow, flex.gap)
       ELSE IF HasGrid(potentialParent)
       THEN gridInsertionIndex(potentialParent, existingChildren, relDropX, relDropY)
       ELSE -1

RECURSIVE flexTargetIndex(_, _, _, _, _, _, _)
\* handleShapeDragEnd: targetIndex in a flex frame (i from 0), -1 when the
\* mouse is in no other child's slot
flexTargetIndex(parent, allChildren, id, i, pos, relMouseX, relMouseY) ==
    IF i >= Len(allChildren) THEN -1
    ELSE LET flex == parent.layout.flex
             padding == flex.padding
             isFlexRow == isRowDirection(flex.direction)
             child == allChildren[i + 1]
             childSize == IF isFlexRow THEN child.width ELSE child.height
             mouseMainPos == IF isFlexRow THEN relMouseX ELSE relMouseY
             mouseCrossPos == IF isFlexRow THEN relMouseY ELSE relMouseX
             crossStart == IF isFlexRow THEN padding.top ELSE padding.left
             crossEnd == IF isFlexRow THEN parent.height - padding.bottom
                         ELSE parent.width - padding.right
         IN IF child.id = id
            THEN flexTargetIndex(parent, allChildren, id, i + 1, pos + childSize + flex.gap,
                                 relMouseX, relMouseY)
            ELSE IF /\ mouseMainPos >= pos /\ mouseMainPos < pos + childSize
                    /\ mouseCrossPos >= crossStart /\ mouseCrossPos < crossEnd
                 THEN i
                 ELSE flexTargetIndex(parent, allChildren, id, i + 1,
                                      pos + childSize + flex.gap, relMouseX, relMouseY)

\* handleShapeDragEnd: targetIndex in a grid frame
gridTargetIndex(parent, allChildren, id, relMouseX, relMouseY) ==
    LET grid == parent.layout.grid
        padding == grid.padding
        columns == grid.columns
        availableWidth == parent.width - padding.left - padding.right
        numRows == (Len(allChildren) + columns - 1) \div columns
        availableHeight == parent.height - padding.top - padding.bottom
        cellWidth == Quot(availableWidth - grid.columnGap * (columns - 1), columns)
        cellHeight == Quot(availableHeight - grid.rowGap * (numRows - 1), numRows)
        relX == relMouseX - padding.left
        relY == relMouseY - padding.top
        col == relX \div (cellWidth + grid.columnGap)
        row == relY \div (cellHeight + grid.rowGap)
        cellStartX == col * (cellWidth + grid.columnGap)
        cellStartY == row * (cellHeight + grid.rowGap)
        isInsideCell == /\ relX >= cellStartX /\ relX < cellStartX + cellWidth
                        /\ relY >= cellStartY /\ relY < cellStartY + cellHeight
        cellIndex == row * columns + col
    IN IF /\ relX >= 0 /\ relX < availableWidth /\ relY >= 0 /\ relY < availableHeight
          /\ isInsideCell /\ col < columns /\ row < numRows
          /\ cellIndex < Len(allChildren)
          /\ allChildren[cellIndex + 1].id # id
       THEN cellIndex
       ELSE -1

\* array.indexOf(id), from 0, -1 when absent
indexOf(s, id) ==
    IF \E i \in 1..Len(s) : s[i] = id
    THEN (CHOOSE i \in 1..Len(s) : s[i] = id /\ \A j \in 1..(i - 1) : s[j] # id) - 1
    ELSE -1

\* reorderChildInParent(parentId, childId, newIndex): the child taken out of
\* the parent's children and put back at newIndex
reorderChildInParent(m, parentId, childId, newIndex) ==
    IF parentId \notin DOMAIN m \/ indexOf(m[parentId].children, childId) = -1 THEN m
    ELSE LET without == SeqFilterOut(m[parentId].children, childId)
             at == Min(newIndex, Len(without))
         IN MapSet(m, parentId,
                   [m[parentId] EXCEPT
                       !.children = SubSeq(without, 1, at) \o <<childId>>
                                    \o SubSeq(without, at + 1, Len(without))])

\* a callback passed to requestAnimationFrame: "apply" lays a frame's children
\* out, "new" does so and regenerates the suggestions, "both" lays out the old
\* and the new parent, "reorder" moves the nested child to its index and asks
\* for a "new" frame
Callback(kind, parent, old, child, index) ==
    [kind |-> kind, parent |-> parent, old |-> old, child |-> child, index |-> index]

\* the updates that lay the children of a flex or grid frame out
layoutUpdatesOf(m, parentId) ==
    IF parentId = Null \/ parentId \notin DOMAIN m \/ ~hasActiveLayout(m[parentId]) THEN <<>>
    ELSE layoutUpdates(childShapes(m, m[parentId]),
                       calculateChildPositions(m[parentId], childShapes(m, m[parentId])))

\* the frames a callback lays out
laidOutBy(m, ids) == {p \in ids \cap DOMAIN m : hasActiveLayout(m[p])}

\* one callback run: the shapes map it leaves, the callbacks it requests,
\* whether it ends with generateSuggestions(), the frames it laid out
runFrame(m, cb) ==
    CASE cb.kind = "apply" ->
           [m |-> applyLayoutPositions(m, cb.parent), frames |-> <<>>,
            regenerate |-> FALSE, reflowed |-> laidOutBy(m, {cb.parent})]
      [] cb.kind = "new" ->
           [m |-> applyLayoutPositions(m, cb.parent), frames |-> <<>>,
            regenerate |-> TRUE, reflowed |-> laidOutBy(m, {cb.parent})]
      [] cb.kind = "both" ->
           [m |-> batchUpdate(m, layoutUpdatesOf(m, cb.old) \o layoutUpdatesOf(m, cb.parent)),
            frames |-> <<>>, regenerate |-> TRUE,
            reflowed |-> laidOutBy(m, {cb.old, cb.parent})]
      [] cb.kind = "reorder" ->
           IF cb.parent \notin DOMAIN m
           THEN [m |-> m, frames |-> <<>>, regenerate |-> FALSE, reflowed |-> {}]
           ELSE LET currentIndex == indexOf(m[cb.parent].children, cb.child)
                IN [m |-> IF currentIndex # cb.index /\ currentIndex # -1
                          THEN reorderChildInParent(m, cb.parent, cb.child, cb.index)
                          ELSE m,
                    frames |-> <<Callback("new", cb.parent, Null, Null, -1)>>,
                    regenerate |-> FALSE, reflowed |-> {}]

\* handleShapeDragEnd(id, mouseX, mouseY), the frames carrying layouts: the
\* shapes map it leaves, the callbacks it requests, whether it ends with
\* generateSuggestions(), the frames it laid out
dragEndFlow(m, id, mouseX, mouseY) ==
    LET shape == m[id]
        hasParent == shape.parentId # Null /\ shape.parentId \in DOMAIN m
        currentParent == m[shape.parentId]
        shapeWorldX == IF hasParent THEN currentParent.x + shape.x ELSE shape.x
        shapeWorldY == IF hasParent THEN currentParent.y + shape.y ELSE shape.y
        shapeInWorldCoords == [shape EXCEPT !.x = shapeWorldX, !.y = shapeWorldY]
        potentialParent == findPotentialParent(shapeInWorldCoords, MapValues(m))
        isInsideCurrentParent ==
            /\ shapeWorldX >= currentParent.x
            /\ shapeWorldY >= currentParent.y
            /\ shapeWorldX + shape.width <= currentParent.x + currentParent.width
            /\ shapeWorldY + shape.height <= currentParent.y + currentParent.height
        oldParentHasLayout == hasActiveLayout(currentParent)
    IN IF hasParent /\ ~isInsideCurrentParent /\ potentialParent = Null
       THEN [m |-> unnestShapeMap(m, id),
             frames |-> IF oldParentHasLayout
                        THEN <<Callback("apply", currentParent.id, Null, Null, -1)>>
                        ELSE <<>>,
             regenerate |-> TRUE, reflowed |-> {}]
       ELSE IF hasParent /\ ~isInsideCurrentParent /\ potentialParent # shape.parentId
       THEN [m |-> nestShapeMap(m, id, potentialParent),
             frames |-> <<Callback("both", potentialParent,
                                   IF oldParentHasLayout THEN currentParent.id ELSE Null,
                                   Null, -1)>>,
             regenerate |-> FALSE, reflowed |-> {}]
       ELSE IF potentialParent # Null /\ potentialParent # shape.parentId
       THEN LET insertionIndex == insertionIndexOf(m, shape, shapeWorldX, shapeWorldY,
                                                   m[potentialParent])
            IN [m |-> nestShapeMap(m, id, potentialParent),
                frames |-> IF /\ insertionIndex >= 0
                              /\ insertionIndex < Len(m[potentialParent].children)
                           THEN <<Callback("reorder", potentialParent, Null, id,
                                           insertionIndex)>>
                           ELSE <<Callback("new", potentialParent, Null, Null, -1)>>,
                regenerate |-> FALSE, reflowed |-> {}]
       ELSE IF hasParent /\ hasActiveLayout(currentParent)
       THEN LET allChildren == childShapes(m, currentParent)
                relMouseX == mouseX - currentParent.x
                relMouseY == mouseY - currentParent.y
                currentIndex == indexOf(currentParent.children, id)
                targetIndex ==
                    IF HasFlex(currentParent)
                    THEN LET flex == currentParent.layout.flex
                         IN flexTargetIndex(currentParent, allChildren, id, 0,
                                            IF isRowDirection(flex.direction)
                                            THEN flex.padding.left ELSE flex.padding.top,
                                            relMouseX, relMouseY)
                    ELSE IF HasGrid(currentParent)
                    THEN gridTargetIndex(currentParent, allChildren, id, relMouseX, relMouseY)
                    ELSE -1
                reordered == targetIndex # -1 /\ targetIndex # currentIndex
            IN IF reordered
               THEN [m |-> reorderChildInParent(m, currentParent.id, id, targetIndex),
                     frames |-> <<Callback("apply", currentParent.id, Null, Null, -1)>>,
                     regenerate |-> TRUE, reflowed |-> {}]
               ELSE [m |-> applyLayoutPositions(m, currentParent.id), frames |-> <<>>,
                     regenerate |-> TRUE, reflowed |-> {currentParent.id}]
       ELSE [m |-> m, frames |-> <<>>, regenerate |-> TRUE, reflowed |-> {}]

\* the frames whose children list differs between two shapes maps
childrenChanged(m1, m2) ==
    {p \in (DOMAIN m1) \cap (DOMAIN m2) : m1[p].children # m2[p].children}

\* a drag ends where the pointer holds the dragged shape: the pointer's offset
\* from the shape's top-left corner
PointerOffsets == { <<0, 0>>, <<12, 12>> }

\* handleShapeDragEnd(id, mouseX, mouseY)
ShapeDragEndFlow(id, offset) ==
    /\ draggingId = id
    /\ dragMoved
    /\ id \in DOMAIN shapes
    /\ draggingId' = Null
    /\ dragMoved' = FALSE
    /\ UNCHANGED <<shapeOrder, selectedIds, nextId, usedPositions, cascadeLog>>
    /\ LET shape == shapes[id]
           hasParent == shape.parentId # Null /\ shape.parentId \in DOMAIN shapes
           mouseX == shape.x + offset[1] + (IF hasParent THEN shapes[shape.parentId].x ELSE 0)
           mouseY == shape.y + offset[2] + (IF hasParent THEN shapes[shape.parentId].y ELSE 0)
           r == dragEndFlow(shapes, id, mouseX, mouseY)
       IN /\ shapes' = r.m
          /\ pendingFrames' = pendingFrames \o r.frames
          /\ dragLog' = [changed |-> dragLog.changed \cup childrenChanged(shapes, r.m),
                         reflowed |-> dragLog.reflowed \cup r.reflowed]
          /\ IF r.regenerate THEN generateSuggestionsAfter
             ELSE UNCHANGED <<suggestions, activeSuggestion>>
    /\ UNCHANGED <<history, engineVars>>

\* the browser runs the oldest callback passed to requestAnimationFrame
AnimationFrame ==
    /\ pendingFrames # <<>>
    /\ UNCHANGED <<shapeOrder, selectedIds, nextId, usedPositions, draggingId, dragMoved,
                   cascadeLog>>
    /\ LET r == runFrame(shapes, Head(pendingFrames))
       IN /\ shapes' = r.m
          /\ pendingFrames' = Tail(pendingFrames) \o r.frames
          /\ dragLog' = [changed |-> dragLog.changed \cup childrenChanged(shapes, r.m),
                         reflowed |-> dragLog.reflowed \cup r.reflowed]
          /\ IF r.regenerate THEN generateSuggestionsAfter
             ELSE UNCHANGED <<suggestions, activeSuggestion>>
    /\ UNCHANGED <<history, engineVars>>

\* the layouts of the frame the shapes are dragged in and out of
FlowLayouts ==
    { [mode |-> "flex",
       flex |-> [direction |-> "row", justifyContent |-> "flex-start",
                 alignItems |-> "stretch", gap |-> 24,
                 padding |-> [top |-> 0, right |-> 0, bottom |-> 0, left |-> 0]]],
      [mode |-> "flex",
       flex |-> [direction |-> "column", justifyContent |-> "flex-start",
                 alignItems |-> "stretch", gap |-> 0,
                 padding |-> [top |-> 24, right |-> 0, bottom |-> 0, left |-> 24]]],
      [mode |-> "grid",
       grid |-> [columns |-> 2, rows |-> 1, columnGap |-> 24, rowGap |-> 0,
                 autoFlow |-> "row",
                 padding |-> [top |-> 0, right |-> 0, bottom |-> 0, left |-> 0]]] }

\* a layout frame (id 1) holding a rect (id 2) and a frame (id 3), each drawn
\* and nested by addShape, the frame's layout stored by updateShape
flowScene(layout) ==
    LET m1 == addShapeMap(<<>>, 1, MkInput([type |-> "frame", x |-> 0, y |-> 0,
                                            width |-> 288, height |-> 144], Null))
        m2 == addShapeMap(m1, 2, MkInput([type |-> "rect", x |-> 0, y |-> 0,
                                          width |-> 24, height |-> 48], 1))
        m3 == addShapeMap(m2, 3, MkInput([type |-> "frame", x |-> 48, y |-> 0,
                                          width |-> 96, height |-> 96], 1))
    IN updateShapeMap(m3, 1, [layout |-> layout])

InitFlow ==
    /\ \E layout \in FlowLayouts : shapes = flowScene(layout)
    /\ shapeOrder = <<1, 2, 3>>
    /\ selectedIds = <<>>
    /\ nextId = 4
    /\ suggestions = <<>>
    /\ activeSuggestion = NoSuggestion
    /\ usedPositions = {}
    /\ draggingId = Null
    /\ dragMoved = FALSE
    /\ pendingFrames = <<>>
    /\ dragLog = NoDragLog
    /\ cascadeLog = <<>>
    /\ history = NoHistory
    /\ InitEngines

\* where a dragged node is reported (in its parent's coordinate space)
FlowDragPositions == { <<60, 12>>, <<200, 60>> }

\* a drag starts once the animation frames requested so far have run
DragStartFlow(id) == pendingFrames = <<>> /\ ShapeDragStart(id)

\* the canvas with layout frames driven by drag and drop
NextFlow ==
    \/ \E id \in DOMAIN shapes : DragStartFlow(id)
    \/ \E id \in DOMAIN shapes, pos \in FlowDragPositions : ShapeDragMove(id, pos[1], pos[2])
    \/ \E id \in DOMAIN shapes, offset \in PointerOffsets : ShapeDragEndFlow(id, offset)
    \/ AnimationFrame

SpecFlow == InitFlow /\ [][NextFlow]_vars

\* ------------------------------------------- Hierarchy Manager: transforms
\* Math.cos and Math.sin of an angle in degrees.  The angles of the model are
\* multiples of 90 degrees, where the cosine and the sine are 0, 1 or -1;
\* the rounding of Math.cos(Math.PI / 2) is not modelled.
CosDeg(angleDeg) ==
    CASE angleDeg % 360 = 0 -> 1
      [] angleDeg % 360 = 180 -> -1
      [] OTHER -> 0

SinDeg(angleDeg) ==
    CASE angleDeg % 360 = 90 -> 1
      [] angleDeg % 360 = 270 -> -1
      [] OTHER -> 0

\* the same with the sign of the sine term of x wrong
rotatePointMirrored(px, py, cx, cy, angleDeg) ==
    [x |-> cx + (px - cx) * CosDeg(angleDeg) + (py - cy) * SinDeg(angleDeg),
     y |-> cy + (px - cx) * SinDeg(angleDeg) + (py - cy) * CosDeg(angleDeg)]

\* rotatePoint(px, py, cx, cy, angleDeg)
rotatePoint(px, py, cx, cy, angleDeg) ==
    LET cos == CosDeg(angleDeg)
        sin == SinDeg(angleDeg)
        dx == px - cx
        dy == py - cy
    IN [x |-> cx + dx * cos - dy * sin,
        y |-> cy + dx * sin + dy * cos]

\* getShapeCenter(shape); widths and heights of the model are even
getShapeCenter(shape) ==
    [x |-> shape.x + Quot(shape.width, 2), y |-> shape.y + Quot(shape.height, 2)]

RECURSIVE collectDescendants(_, _)
\* getDescendants: collectDescendants over a children list, pre-order
collectDescendants(m, childIds) ==
    IF childIds = <<>> THEN <<>>
    ELSE (IF Head(childIds) \in DOMAIN m
          THEN <<m[Head(childIds)]>> \o collectDescendants(m, m[Head(childIds)].children)
          ELSE <<>>)
         \o collectDescendants(m, Tail(childIds))

\* getDescendants(shapeId, shapes)
getDescendants(shapeId, m) ==
    IF shapeId \notin DOMAIN m THEN <<>>
    ELSE collectDescendants(m, m[shapeId].children)

\* getDescendantUpdates(parentId, deltaX, deltaY, shapes)
getDescendantUpdates(parentId, deltaX, deltaY, m) ==
    LET descendants == getDescendants(parentId, m)
    IN [i \in 1..Len(descendants) |->
           [id |-> descendants[i].id,
            x |-> descendants[i].x + deltaX,
            y |-> descendants[i].y + deltaY]]

\* the same with half the width taken on both axes
topLeftOfCentreSquare(center, shape) ==
    [x |-> center.x - Quot(shape.width, 2), y |-> center.y - Quot(shape.width, 2)]

\* newX, newY: the top-left corner of a shape whose centre is given
topLeftOfCentre(center, shape) ==
    [x |-> center.x - Quot(shape.width, 2), y |-> center.y - Quot(shape.height, 2)]

\* getDescendantRotationUpdates(parentId, deltaRotation, parentCenterX,
\* parentCenterY, shapes)
getDescendantRotationUpdates(parentId, deltaRotation, parentCenterX, parentCenterY, m) ==
    LET descendants == getDescendants(parentId, m)
    IN [i \in 1..Len(descendants) |->
           LET descendant == descendants[i]
               childCenter == getShapeCenter(descendant)
               rotatedCenter == rotatePoint(childCenter.x, childCenter.y,
                                            parentCenterX, parentCenterY, deltaRotation)
               new == topLeftOfCentre(rotatedCenter, descendant)
           IN [id |-> descendant.id, x |-> new.x, y |-> new.y,
               rotation |-> descendant.rotation + deltaRotation]]

\* the same with the fraction taken of the new size
rescaleByNewSize(local, oldOrigin, oldSize, newOrigin, newSize) ==
    newOrigin + Quot((local - oldOrigin) * newSize, newSize)

\* getDescendantResizeUpdates: relativeX and newLocalX (the same on y),
\* newOrigin + ((local - oldOrigin) / oldSize) * newSize with the product
\* taken before the quotient
rescale(local, oldOrigin, oldSize, newOrigin, newSize) ==
    newOrigin + Quot((local - oldOrigin) * newSize, oldSize)

\* getDescendantResizeUpdates(parentId, oldParent, newParent, shapes)
getDescendantResizeUpdates(parentId, oldParent, newParent, m) ==
    LET descendants == getDescendants(parentId, m)
        oldCenter == getShapeCenter(oldParent)
        newCenter == getShapeCenter(newParent)
        deltaRotation == newParent.rotation - oldParent.rotation
    IN [i \in 1..Len(descendants) |->
           LET descendant == descendants[i]
               childCenter == getShapeCenter(descendant)
               localChild == rotatePoint(childCenter.x, childCenter.y,
                                         oldCenter.x, oldCenter.y, -oldParent.rotation)
               newLocalX == rescale(localChild.x, oldParent.x, oldParent.width,
                                    newParent.x, newParent.width)
               newLocalY == rescale(localChild.y, oldParent.y, oldParent.height,
                                    newParent.y, newParent.height)
               newWorldPos == rotatePoint(newLocalX, newLocalY, newCenter.x, newCenter.y,
                                          newParent.rotation)
               new == topLeftOfCentre(newWorldPos, descendant)
           IN [id |-> descendant.id, x |-> new.x, y |-> new.y,
               rotation |-> descendant.rotation + deltaRotation]]

RECURSIVE worldLoop(_, _, _)
\* getWorldTransform: the loop over the ancestors, outermost first
worldLoop(shape, ancestors, world) ==
    IF ancestors = <<>> THEN world
    ELSE LET ancestor == Head(ancestors)
         IN IF ancestor.rotation # 0
            THEN LET ancestorCenter == getShapeCenter(ancestor)
                     rotated == rotatePoint(world.x + Quot(shape.width, 2),
                                            world.y + Quot(shape.height, 2),
                                            ancestorCenter.x, ancestorCenter.y,
                                            ancestor.rotation)
                 IN worldLoop(shape, Tail(ancestors),
                              [x |-> rotated.x - Quot(shape.width, 2),
                               y |-> rotated.y - Quot(shape.height, 2),
                               rotation |-> world.rotation + ancestor.rotation])
            ELSE worldLoop(shape, Tail(ancestors), world)

\* getWorldTransform(shapeId, shapes)
getWorldTransform(shapeId, m) ==
    IF shapeId \notin DOMAIN m
    THEN [x |-> 0, y |-> 0, rotation |-> 0, scaleX |-> 1, scaleY |-> 1]
    ELSE LET world == worldLoop(m[shapeId], Reverse(getAncestors(shapeId, m)),
                                [x |-> m[shapeId].x, y |-> m[shapeId].y,
                                 rotation |-> m[shapeId].rotation])
         IN [x |-> world.x, y |-> world.y, rotation |-> world.rotation,
             scaleX |-> 1, scaleY |-> 1]

\* the updates of the Hierarchy Manager as batchUpdate takes them
asChanges(updates) ==
    [i \in 1..Len(updates) |->
        [id |-> updates[i].id,
         changes |-> [f \in (DOMAIN updates[i]) \ {"id"} |-> updates[i][f]]]]

\* ------------------------------------------ transforms: inputs and driver
\* largest coordinate and size of a shape
MaxPose == 400

\* every stored coordinate, size and angle is within the modelled range
PoseInRange(m) ==
    \A id \in DOMAIN m :
        /\ Abs(m[id].x) <= MaxPose /\ Abs(m[id].y) <= MaxPose
        /\ m[id].width <= MaxPose /\ m[id].height <= MaxPose
        /\ m[id].rotation >= 0 /\ m[id].rotation <= 360

\* a frame (id 1), a frame in it (id 2) and, when `deep`, a rect in that one
\* (id 3): each drawn and nested by addShape, the rotations stored by
\* updateShape
poseScene(frameBox, childBox, frameRotation, childRotation, deep) ==
    LET m1 == addShapeMap(<<>>, 1, MkInput(frameBox, Null))
        m2 == addShapeMap(m1, 2, MkInput([childBox EXCEPT !.x = frameBox.x + childBox.x,
                                                           !.y = frameBox.y + childBox.y],
                                         Null))
        m3 == nestShapeMap(m2, 2, 1)
        m4 == IF deep
              THEN addShapeMap(m3, 3, MkInput([type |-> "rect",
                                               x |-> frameBox.x + childBox.x + 4,
                                               y |-> frameBox.y + childBox.y + 6,
                                               width |-> 10, height |-> 20], Null))
              ELSE m3
        m5 == IF deep THEN nestShapeMap(m4, 3, 2) ELSE m4
    IN updateShapeMap(updateShapeMap(m5, 1, [rotation |-> frameRotation]),
                      2, [rotation |-> childRotation])

PoseFrameBoxes ==
    { [type |-> "frame", x |-> 0, y |-> 0, width |-> 400, height |-> 300],
      [type |-> "frame", x |-> 20, y |-> 40, width |-> 80, height |-> 60] }

\* the box of the nested frame, from the outer frame's corner
PoseChildBoxes ==
    { [type |-> "frame", x |-> 10, y |-> 10, width |-> 50, height |-> 50],
      [type |-> "frame", x |-> 40, y |-> 4, width |-> 20, height |-> 30] }

InitPose ==
    /\ \E frameBox \in PoseFrameBoxes, childBox \in PoseChildBoxes,
          frameRotation \in {0, 90}, childRotation \in {0, 270}, deep \in BOOLEAN :
          shapes = poseScene(frameBox, childBox, frameRotation, childRotation, deep)
    /\ shapeOrder = [i \in 1..Cardinality(DOMAIN shapes) |-> i]
    /\ selectedIds = <<>>
    /\ nextId = Cardinality(DOMAIN shapes) + 1
    /\ suggestions = <<>>
    /\ activeSuggestion = NoSuggestion
    /\ usedPositions = {}
    /\ draggingId = Null
    /\ dragMoved = FALSE
    /\ pendingFrames = <<>>
    /\ dragLog = NoDragLog
    /\ cascadeLog = <<>>
    /\ history = NoHistory
    /\ InitEngines

\* most cascades applied to one tree
MaxCascades == 2

\* what a cascade leaves alone
poseUnchanged ==
    <<shapeOrder, selectedIds, nextId, suggestions, activeSuggestion, usedPositions,
      draggingId, dragMoved, pendingFrames, dragLog>>

\* the cascade op of parent by `by`, applied to the shapes `before`
Logged(op, parentId, by) ==
    /\ Len(cascadeLog) < MaxCascades
    /\ cascadeLog' = Append(cascadeLog, [op |-> op, parent |-> parentId, by |-> by,
                                         before |-> shapes])

\* a frame rotated about its centre, its descendants following
RotateFrame(parentId, deltaRotation) ==
    /\ shapes[parentId].type = "frame"
    /\ Logged("rotate", parentId, deltaRotation)
    /\ LET center == getShapeCenter(shapes[parentId])
           updates == getDescendantRotationUpdates(parentId, deltaRotation,
                                                   center.x, center.y, shapes)
           rotated == updateShapeMap(shapes, parentId,
                          [rotation |-> shapes[parentId].rotation + deltaRotation])
       IN shapes' = batchUpdate(rotated, asChanges(updates))
    /\ history' = updateShapeHistory(history, shapes, parentId,
                       [rotation |-> shapes[parentId].rotation + deltaRotation])
    /\ PoseInRange(shapes')
    /\ UNCHANGED poseUnchanged
    /\ UNCHANGED engineVars

\* a frame moved, its descendants following
MoveFrame(parentId, deltaX, deltaY) ==
    /\ shapes[parentId].type = "frame"
    /\ Logged("move", parentId, <<deltaX, deltaY>>)
    /\ LET updates == getDescendantUpdates(parentId, deltaX, deltaY, shapes)
           moved == updateShapeMap(shapes, parentId,
                        [x |-> shapes[parentId].x + deltaX,
                         y |-> shapes[parentId].y + deltaY])
       IN shapes' = batchUpdate(moved, asChanges(updates))
    /\ history' = updateShapeHistory(history, shapes, parentId,
                       [x |-> shapes[parentId].x + deltaX, y |-> shapes[parentId].y + deltaY])
    /\ PoseInRange(shapes')
    /\ UNCHANGED poseUnchanged
    /\ UNCHANGED engineVars

\* the boxes a frame is resized to: moved by (dx, dy), its width and height
\* multiplied by kx / lx and ky / ly, turned by turn degrees
Resizes ==
    { [dx |-> 0, dy |-> 0, kx |-> 1, lx |-> 1, ky |-> 1, ly |-> 1, turn |-> 0],
      [dx |-> 0, dy |-> 0, kx |-> 2, lx |-> 1, ky |-> 1, ly |-> 1, turn |-> 0],
      [dx |-> 100, dy |-> 0, kx |-> 1, lx |-> 2, ky |-> 2, ly |-> 1, turn |-> 0],
      [dx |-> 0, dy |-> 20, kx |-> 1, lx |-> 1, ky |-> 1, ly |-> 2, turn |-> 90] }

\* newParent of getDescendantResizeUpdates
resizedBox(oldParent, r) ==
    [x |-> oldParent.x + r.dx, y |-> oldParent.y + r.dy,
     width |-> Quot(oldParent.width * r.kx, r.lx),
     height |-> Quot(oldParent.height * r.ky, r.ly),
     rotation |-> oldParent.rotation + r.turn]

\* the quotients of getDescendantResizeUpdates are whole numbers
resizeIsWhole(parentId, oldParent, newParent, m) ==
    /\ newParent.width % 2 = 0 /\ newParent.height % 2 = 0
    /\ \A i \in 1..Len(getDescendants(parentId, m)) :
          LET c == getShapeCenter(getDescendants(parentId, m)[i])
              o == getShapeCenter(oldParent)
              localChild == rotatePoint(c.x, c.y, o.x, o.y, -oldParent.rotation)
          IN /\ ((localChild.x - oldParent.x) * newParent.width) % oldParent.width = 0
             /\ ((localChild.y - oldParent.y) * newParent.height) % oldParent.height = 0

\* a frame resized, its descendants following
ResizeFrame(parentId, r) ==
    /\ shapes[parentId].type = "frame"
    /\ Logged("resize", parentId, r)
    /\ LET oldParent == shapes[parentId]
           newParent == resizedBox(oldParent, r)
           updates == getDescendantResizeUpdates(parentId, oldParent, newParent, shapes)
       IN /\ resizeIsWhole(parentId, oldParent, newParent, shapes)
          /\ history' = updateShapeHistory(history, shapes, parentId, newParent)
          /\ shapes' = batchUpdate(updateShapeMap(shapes, parentId, newParent),
                                   asChanges(updates))
    /\ PoseInRange(shapes')
    /\ UNCHANGED poseUnchanged
    /\ UNCHANGED engineVars

\* the Hierarchy Manager's cascades applied to the frames of a tree
NextPose ==
    \/ \E parentId \in DOMAIN shapes, deltaRotation \in {90, -90, 180} :
           RotateFrame(parentId, deltaRotation)
    \/ \E parentId \in DOMAIN shapes, d \in {<<20, -10>>, <<-20, 10>>} :
           MoveFrame(parentId, d[1], d[2])
    \/ \E parentId \in DOMAIN shapes, r \in Resizes : ResizeFrame(parentId, r)

SpecPose == InitPose /\ [][NextPose]_vars

\* ------------------------------------------------- the store, call by call
\* getSiblings(shapeId, shapes), in the order of the map
getSiblings(shapeId, m) ==
    IF shapeId \notin DOMAIN m THEN <<>>
    ELSE LET ids == SortedSeq({id \in DOMAIN m :
                                  id # shapeId /\ m[id].parentId = m[shapeId].parentId})
         IN [i \in 1..Len(ids) |-> m[ids[i]]]

\* the state of the shape store
StoreState ==
    [shapes |-> shapes, shapeOrder |-> shapeOrder, selectedIds |-> selectedIds,
     history |-> history]

\* updateShape(id, updates): the state after the call
updateShape(st, id, updates) ==
    [st EXCEPT !.shapes = updateShapeMap(st.shapes, id, updates),
               !.history = updateShapeHistory(st.history, st.shapes, id, updates)]

\* deleteShape(id): the state after the call
deleteShape(st, id) ==
    IF id \notin DOMAIN st.shapes THEN st
    ELSE [st EXCEPT !.shapes = deleteShapeMap(st.shapes, id),
                    !.shapeOrder = SeqFilterOut(st.shapeOrder, id),
                    !.selectedIds = SeqFilterOut(st.selectedIds, id)]

\* nestShape(childId, parentId): the state after the call
nestShape(st, childId, parentId) ==
    [st EXCEPT !.shapes = nestShapeMap(st.shapes, childId, parentId)]

\* unnestShape(childId): the state after the call
unnestShape(st, childId) ==
    [st EXCEPT !.shapes = unnestShapeMap(st.shapes, childId)]

\* selectAll(): the state after the call
selectAll(st) == [st EXCEPT !.selectedIds = st.shapeOrder]

\* most actions kept in the history
MaxHistory == 3

\* the updates a caller passes to updateShape
StoreUpdates == { [rotation |-> 90, y |-> 0] }

\* updateShape(id, updates)
UpdateShape(id, updates) ==
    /\ Len(history.actions) < MaxHistory
    /\ shapes' = updateShape(StoreState, id, updates).shapes
    /\ history' = updateShape(StoreState, id, updates).history
    /\ UNCHANGED <<shapeOrder, selectedIds, nextId, canvasVars>>
    /\ UNCHANGED engineVars

\* selectAll()
SelectAll ==
    /\ selectedIds' = selectAll(StoreState).selectedIds
    /\ UNCHANGED <<shapes, shapeOrder, nextId, canvasVars, history, engineVars>>

\* the store after construction, its history followed
InitHistory ==
    /\ shapes = <<>>
    /\ shapeOrder = <<>>
    /\ selectedIds = <<>>
    /\ nextId = 1
    /\ suggestions = <<>>
    /\ activeSuggestion = NoSuggestion
    /\ usedPositions = {}
    /\ draggingId = Null
    /\ dragMoved = FALSE
    /\ pendingFrames = <<>>
    /\ dragLog = NoDragLog
    /\ cascadeLog = <<>>
    /\ history = EmptyHistory
    /\ InitEngines

\* the boxes of the shapes created in the store whose history is followed
HistoryInputs == {box \in StoreInputs : box.type = "frame"}

\* the shape store driven directly, with ids that are and that are not in
\* the map
NextHistory ==
    \/ \E box \in HistoryInputs, parentId \in {Null} \cup FrameIds : AddShape(box, parentId)
    \/ \E id \in Ids, updates \in StoreUpdates : UpdateShape(id, updates)
    \/ \E childId \in Ids, parentId \in Ids : NestChecked(childId, parentId)
    \/ \E childId \in Ids : UnnestShape(childId)
    \/ \E id \in Ids : DeleteShape(id)

SpecHistory == InitHistory /\ [][NextHistory]_vars

\* the store driven by addShape, deleteShape and selectAll
NextSelection ==
    \/ \E box \in StoreInputs, parentId \in {Null} \cup FrameIds : AddShape(box, parentId)
    \/ \E id \in Ids : DeleteShape(id)
    \/ SelectAll

SpecSelection == Init /\ [][NextSelection]_vars

\* --------------------------------------------- Snap Engine: guides, resize
\* targetShapeId: 'canvas'
CanvasId == -1
\* snapResize: Math.max(10, width), Math.max(10, height)
ResizeFloor == 10

\* createVerticalGuide(x, source, target)
createVerticalGuide(x, source, target) ==
    [type |-> "vertical", position |-> x,
     start |-> Min(source.y, target.y),
     end |-> Max(source.y + source.height, target.y + target.height),
     sourceShapeId |-> source.id, targetShapeId |-> target.id]

\* createHorizontalGuide(y, source, target)
createHorizontalGuide(y, source, target) ==
    [type |-> "horizontal", position |-> y,
     start |-> Min(source.x, target.x),
     end |-> Max(source.x + source.width, target.x + target.width),
     sourceShapeId |-> source.id, targetShapeId |-> target.id]

\* no check of a target matched
NoHit == [hit |-> FALSE]

\* a check matched: the snapped coordinate it sets and the guide it pushes
Hit(value, guide) == [hit |-> TRUE, value |-> value, guide |-> guide]

\* the same with the snapped coordinate put on the canvas centre itself
canvasCenterXNoHalfWidth(e, movingShape, newX, canvasWidth, canvasHeight) ==
    IF Abs((2 * newX + movingShape.width) - canvasWidth) < 2 * e.threshold
    THEN Hit(Quot(canvasWidth, 2),
             [type |-> "vertical", position |-> Quot(canvasWidth, 2), start |-> 0,
              end |-> canvasHeight, sourceShapeId |-> movingShape.id,
              targetShapeId |-> CanvasId])
    ELSE NoHit

\* snapShape: "Check canvas center X" (both sides of the comparison doubled)
canvasCenterX(e, movingShape, newX, canvasWidth, canvasHeight) ==
    IF Abs((2 * newX + movingShape.width) - canvasWidth) < 2 * e.threshold
    THEN Hit(Quot(canvasWidth - movingShape.width, 2),
             [type |-> "vertical", position |-> Quot(canvasWidth, 2), start |-> 0,
              end |-> canvasHeight, sourceShapeId |-> movingShape.id,
              targetShapeId |-> CanvasId])
    ELSE NoHit

\* snapShape: "Check canvas center Y"
canvasCenterY(e, movingShape, newY, canvasWidth, canvasHeight) ==
    IF Abs((2 * newY + movingShape.height) - canvasHeight) < 2 * e.threshold
    THEN Hit(Quot(canvasHeight - movingShape.height, 2),
             [type |-> "horizontal", position |-> Quot(canvasHeight, 2), start |-> 0,
              end |-> canvasWidth, sourceShapeId |-> movingShape.id,
              targetShapeId |-> CanvasId])
    ELSE NoHit

\* the same with the checks of the far edges tried before the near ones
targetXFarFirst(e, movingShape, newX, target) ==
    LET movingRight == newX + movingShape.width
        targetRight == target.x + target.width
    IN IF Abs(movingRight - targetRight) < e.threshold
       THEN Hit(targetRight - movingShape.width,
                createVerticalGuide(targetRight, movingShape, target))
       ELSE IF Abs(newX - target.x) < e.threshold
       THEN Hit(target.x, createVerticalGuide(target.x, movingShape, target))
       ELSE NoHit

\* snapShape: "Horizontal snapping (X axis)" of one target, the if / else if
\* chain
targetX(e, movingShape, newX, target) ==
    LET movingRight == newX + movingShape.width
        targetRight == target.x + target.width
    IN IF Abs(newX - target.x) < e.threshold
       THEN Hit(target.x, createVerticalGuide(target.x, movingShape, target))
       ELSE IF Abs(movingRight - targetRight) < e.threshold
       THEN Hit(targetRight - movingShape.width,
                createVerticalGuide(targetRight, movingShape, target))
       ELSE IF Abs(newX - targetRight) < e.threshold
       THEN Hit(targetRight, createVerticalGuide(targetRight, movingShape, target))
       ELSE IF Abs(movingRight - target.x) < e.threshold
       THEN Hit(target.x - movingShape.width,
                createVerticalGuide(target.x, movingShape, target))
       ELSE IF Abs((2 * newX + movingShape.width) - (2 * target.x + target.width))
                  < 2 * e.threshold
       THEN Hit(Quot(2 * target.x + target.width - movingShape.width, 2),
                createVerticalGuide(target.x + Quot(target.width, 2), movingShape, target))
       ELSE NoHit

\* the same with the snapped coordinate taken from the target's far edge
targetYFromBottom(e, movingShape, newY, target) ==
    IF Abs(newY - target.y) < e.threshold
    THEN Hit(target.y + target.height, createHorizontalGuide(target.y, movingShape, target))
    ELSE NoHit

\* snapShape: "Vertical snapping (Y axis)" of one target
targetY(e, movingShape, newY, target) ==
    LET movingBottom == newY + movingShape.height
        targetBottom == target.y + target.height
    IN IF Abs(newY - target.y) < e.threshold
       THEN Hit(target.y, createHorizontalGuide(target.y, movingShape, target))
       ELSE IF Abs(movingBottom - targetBottom) < e.threshold
       THEN Hit(targetBottom - movingShape.height,
                createHorizontalGuide(targetBottom, movingShape, target))
       ELSE IF Abs(newY - targetBottom) < e.threshold
       THEN Hit(targetBottom, createHorizontalGuide(targetBottom, movingShape, target))
       ELSE IF Abs(movingBottom - target.y) < e.threshold
       THEN Hit(target.y - movingShape.height,
                createHorizontalGuide(target.y, movingShape, target))
       ELSE IF Abs((2 * newY + movingShape.height) - (2 * target.y + target.height))
                  < 2 * e.threshold
       THEN Hit(Quot(2 * target.y + target.height - movingShape.height, 2),
                createHorizontalGuide(target.y + Quot(target.height, 2), movingShape, target))
       ELSE NoHit

\* snappedX = ...; guides.push(...)
hitX(cur, h) ==
    IF h.hit THEN [cur EXCEPT !.snappedX = h.value, !.guides = Append(@, h.guide)] ELSE cur

\* snappedY = ...; guides.push(...)
hitY(cur, h) ==
    IF h.hit THEN [cur EXCEPT !.snappedY = h.value, !.guides = Append(@, h.guide)] ELSE cur

RECURSIVE snapTargets(_, _, _, _, _, _)
\* snapShape: for (const target of otherShapes)
snapTargets(e, movingShape, newX, newY, otherShapes, cur) ==
    IF otherShapes = <<>> THEN cur
    ELSE LET target == Head(otherShapes)
             next == IF target.id = movingShape.id THEN cur
                     ELSE hitY(hitX(cur, targetX(e, movingShape, newX, target)),
                               targetY(e, movingShape, newY, target))
         IN snapTargets(e, movingShape, newX, newY, Tail(otherShapes), next)

\* snapShape(movingShape, newX, newY, otherShapes, canvasWidth, canvasHeight)
\* of the engine e: snappedX, snappedY and guides
snapShapeResult(e, movingShape, newX, newY, otherShapes, canvasWidth, canvasHeight) ==
    IF ~e.enabled THEN [snappedX |-> newX, snappedY |-> newY, guides |-> <<>>]
    ELSE LET start == [snappedX |-> newX, snappedY |-> newY, guides |-> <<>>]
             centred == hitY(hitX(start, canvasCenterX(e, movingShape, newX,
                                                       canvasWidth, canvasHeight)),
                             canvasCenterY(e, movingShape, newY, canvasWidth, canvasHeight))
         IN snapTargets(e, movingShape, newX, newY, otherShapes, centred)

\* snapResize: the checks of one target, handle being the set of the letters
\* of the handle's name
resizeTarget(e, shape, handle, target, cur) ==
    LET targetRight == target.x + target.width
        targetBottom == target.y + target.height
        east == IF "e" \notin handle THEN cur
                ELSE IF Abs(cur.x + cur.width - targetRight) < e.threshold
                THEN [cur EXCEPT !.width = targetRight - cur.x,
                                 !.guides = Append(@, createVerticalGuide(targetRight,
                                                                         shape, target))]
                ELSE IF Abs(cur.x + cur.width - target.x) < e.threshold
                THEN [cur EXCEPT !.width = target.x - cur.x,
                                 !.guides = Append(@, createVerticalGuide(target.x,
                                                                         shape, target))]
                ELSE cur
        west == IF "w" \notin handle THEN east
                ELSE IF Abs(east.x - target.x) < e.threshold
                THEN [east EXCEPT !.x = target.x,
                                  !.width = east.width + (east.x - target.x),
                                  !.guides = Append(@, createVerticalGuide(target.x,
                                                                          shape, target))]
                ELSE IF Abs(east.x - targetRight) < e.threshold
                THEN [east EXCEPT !.x = targetRight,
                                  !.width = east.width + (east.x - targetRight),
                                  !.guides = Append(@, createVerticalGuide(targetRight,
                                                                          shape, target))]
                ELSE east
        south == IF "s" \notin handle THEN west
                 ELSE IF Abs(west.y + west.height - targetBottom) < e.threshold
                 THEN [west EXCEPT !.height = targetBottom - west.y,
                                   !.guides = Append(@, createHorizontalGuide(targetBottom,
                                                                             shape, target))]
                 ELSE IF Abs(west.y + west.height - target.y) < e.threshold
                 THEN [west EXCEPT !.height = target.y - west.y,
                                   !.guides = Append(@, createHorizontalGuide(target.y,
                                                                             shape, target))]
                 ELSE west
    IN IF "n" \notin handle THEN south
       ELSE IF Abs(south.y - target.y) < e.threshold
       THEN [south EXCEPT !.y = target.y,
                          !.height = south.height + (south.y - target.y),
                          !.guides = Append(@, createHorizontalGuide(target.y, shape, target))]
       ELSE IF Abs(south.y - targetBottom) < e.threshold
       THEN [south EXCEPT !.y = targetBottom,
                          !.height = south.height + (south.y - targetBottom),
                          !.guides = Append(@, createHorizontalGuide(targetBottom,
                                                                    shape, target))]
       ELSE south

RECURSIVE resizeTargets(_, _, _, _, _)
\* snapResize: for (const target of otherShapes)
resizeTargets(e, shape, handle, otherShapes, cur) ==
    IF otherShapes = <<>> THEN cur
    ELSE resizeTargets(e, shape, handle, Tail(otherShapes),
                       IF Head(otherShapes).id = shape.id THEN cur
                       ELSE resizeTarget(e, shape, handle, Head(otherShapes), cur))

\* snapResize(shape, handle, newX, newY, newWidth, newHeight, otherShapes) of
\* the engine e
snapResize(e, shape, handle, newX, newY, newWidth, newHeight, otherShapes) ==
    LET start == [x |-> newX, y |-> newY, width |-> newWidth, height |-> newHeight,
                  guides |-> <<>>]
    IN IF ~e.enabled THEN start
       ELSE LET end == resizeTargets(e, shape, handle, otherShapes, start)
            IN [end EXCEPT !.width = Max(ResizeFloor, end.width),
                           !.height = Max(ResizeFloor, end.height)]

RECURSIVE insertByX(_, _)
\* [...shapes].sort((a, b) => a.x - b.x): s put into a sorted list, behind
\* the shapes with the same x
insertByX(sorted, s) ==
    IF sorted = <<>> THEN <<s>>
    ELSE IF s.x < Head(sorted).x THEN <<s>> \o sorted
    ELSE <<Head(sorted)>> \o insertByX(Tail(sorted), s)

RECURSIVE sortByX(_, _)
\* [...shapes].sort((a, b) => a.x - b.x)
sortByX(sorted, rest) ==
    IF rest = <<>> THEN sorted ELSE sortByX(insertByX(sorted, Head(rest)), Tail(rest))

RECURSIVE reduceWidth(_)
\* sortedByX.reduce((sum, s) => sum + s.width, 0)
reduceWidth(list) ==
    IF list = <<>> THEN 0 ELSE reduceWidth(SubSeq(list, 1, Len(list) - 1)) + list[Len(list)].width

\* the same with the guide put on the left shape's right edge
distributionGuideAtEdge(left, right) ==
    [type |-> "vertical", position |-> left.x + left.width,
     start |-> Min(left.y, right.y),
     end |-> Max(left.y + left.height, right.y + right.height),
     sourceShapeId |-> left.id, targetShapeId |-> right.id, alignType |-> "distribute"]

\* getDistributionGuides: the guide pushed for sortedByX[i - 1], sortedByX[i]
distributionGuide(left, right) ==
    [type |-> "vertical", position |-> Quot(left.x + left.width + right.x, 2),
     start |-> Min(left.y, right.y),
     end |-> Max(left.y + left.height, right.y + right.height),
     sourceShapeId |-> left.id, targetShapeId |-> right.id, alignType |-> "distribute"]

\* getDistributionGuides(shapes) of the engine e.  idealGap is a quotient by
\* shapes.length - 1: the comparison is made with both sides multiplied by it.
getDistributionGuides(e, list) ==
    IF Len(list) < 3 THEN <<>>
    ELSE LET sortedByX == sortByX(<<>>, list)
             n == Len(sortedByX)
             totalWidth == reduceWidth(sortedByX)
             containerWidth == sortedByX[n].x + sortedByX[n].width - sortedByX[1].x
             gap(i) == sortedByX[i].x - (sortedByX[i - 1].x + sortedByX[i - 1].width)
             isHorizontallyDistributed ==
                 \A i \in 2..n :
                     ~(Abs(gap(i) * (n - 1) - (containerWidth - totalWidth))
                          > e.threshold * (n - 1))
         IN IF isHorizontallyDistributed
            THEN [i \in 1..(n - 1) |-> distributionGuide(sortedByX[i], sortedByX[i + 1])]
            ELSE <<>>

\* ------------------------------------------------ Snap Engine: the calls
\* setThreshold(threshold)
SetThreshold(threshold) ==
    /\ snapEngine' = [snapEngine EXCEPT !.threshold = threshold]
    /\ UNCHANGED <<shapes, shapeOrder, selectedIds, nextId, canvasVars, history, callLog,
                   gemini>>

\* setEnabled(enabled)
SetEnabled(enabled) ==
    /\ snapEngine' = [snapEngine EXCEPT !.enabled = enabled]
    /\ UNCHANGED <<shapes, shapeOrder, selectedIds, nextId, canvasVars, history, callLog,
                   gemini>>

\* a shape as the engine reads it
Box(id, x, y, width, height) ==
    [id |-> id, type |-> "rect", x |-> x, y |-> y, width |-> width, height |-> height]

\* the lists of other shapes handed to snapShape and snapResize; the shape
\* with id 1 is the moving shape's own entry
TargetLists ==
    LET own == Box(1, 96, 96, 40, 40)
        a == Box(2, 100, 100, 40, 40)
        b == Box(3, 104, 160, 60, 20)
    IN { <<>>, <<a>>, <<a, b>>, <<b, a>>, <<own>>, <<own, a>> }

\* the sizes of the moving shape
MovingSizes == { <<40, 40>>, <<20, 60>> }

\* the positions requested for the moving shape
RequestedX == {198, 78, 102, 140}
RequestedY == {100, 84, 300}

\* the sizes of the canvas
CanvasSizes == { <<200, 200>>, <<400, 360>> }

\* snapEngine.snapShape(movingShape, newX, newY, otherShapes, canvasWidth,
\* canvasHeight), the moving shape placed at the requested position as
\* handleShapeDragMove passes it
SnapShapeCall(size, newX, newY, otherShapes, canvas) ==
    /\ callLog' = [fn |-> "snapShape", engine |-> snapEngine,
                   movingShape |-> Box(1, newX, newY, size[1], size[2]),
                   newX |-> newX, newY |-> newY, otherShapes |-> otherShapes,
                   canvasWidth |-> canvas[1], canvasHeight |-> canvas[2],
                   result |-> snapShapeResult(snapEngine,
                                              Box(1, newX, newY, size[1], size[2]),
                                              newX, newY, otherShapes, canvas[1], canvas[2])]
    /\ UNCHANGED <<shapes, shapeOrder, selectedIds, nextId, canvasVars, history, snapEngine,
                   gemini>>

\* the handles of a resize, as the sets of the letters of their names
Handles == { {"e"}, {"w"}, {"n", "e"}, {"s", "w"} }

\* the sizes requested in a resize
RequestedSizes == { <<40, 40>>, <<4, 64>>, <<-6, 2>> }

\* snapEngine.snapResize(shape, handle, newX, newY, newWidth, newHeight,
\* otherShapes)
SnapResizeCall(handle, newX, newY, size, otherShapes) ==
    /\ callLog' = [fn |-> "snapResize", engine |-> snapEngine, handle |-> handle,
                   newWidth |-> size[1], newHeight |-> size[2],
                   otherShapes |-> otherShapes,
                   result |-> snapResize(snapEngine, Box(1, 96, 96, 40, 40), handle,
                                         newX, newY, size[1], size[2], otherShapes)]
    /\ UNCHANGED <<shapes, shapeOrder, selectedIds, nextId, canvasVars, history, snapEngine,
                   gemini>>

\* the shapes handed to getDistributionGuides: width 100 at x = 0, 150, 300,
\* and one 60 further than the spacing
DistributionBoxes ==
    << Box(1, 0, 0, 100, 40), Box(2, 150, 20, 100, 60), Box(3, 300, 10, 100, 20),
       Box(4, 458, 0, 100, 40) >>

\* the lists handed to getDistributionGuides: the shapes picked, in either
\* order
DistributionLists ==
    { SelectSeq(DistributionBoxes, LAMBDA s : s.id \in pick) : pick \in SUBSET (1..4) }
    \cup { Reverse(SelectSeq(DistributionBoxes, LAMBDA s : s.id \in pick)) :
             pick \in SUBSET (1..4) }

\* snapEngine.getDistributionGuides(shapes)
DistributionGuidesCall(list) ==
    /\ callLog' = [fn |-> "getDistributionGuides", engine |-> snapEngine,
                   shapes |-> list,
                   result |-> getDistributionGuides(snapEngine, list)]
    /\ UNCHANGED <<shapes, shapeOrder, selectedIds, nextId, canvasVars, history, snapEngine,
                   gemini>>

\* the Snap Engine called with any setting
NextSnap ==
    \/ \E threshold \in {4, 8} : SetThreshold(threshold)
    \/ \E enabled \in BOOLEAN : SetEnabled(enabled)
    \/ \E size \in MovingSizes, newX \in RequestedX, newY \in RequestedY,
          otherShapes \in TargetLists, canvas \in CanvasSizes :
           SnapShapeCall(size, newX, newY, otherShapes, canvas)
    \/ \E handle \in Handles, newX \in {96, 102}, newY \in {96},
          size \in RequestedSizes, otherShapes \in TargetLists :
           SnapResizeCall(handle, newX, newY, size, otherShapes)
    \/ \E list \in DistributionLists : DistributionGuidesCall(list)

SpecSnap == Init /\ [][NextSnap]_vars

\* -------------------------------------------------------------- matrices
\* Matrix2D [a, b, c, d, tx, ty] is the sequence <<a, b, c, d, tx, ty>>: the
\* source's m[i] is m[i + 1] here.  The entries of the model are integers.

identityMatrix == <<1, 0, 0, 1, 0, 0>>

translationMatrix(tx, ty) == <<1, 0, 0, 1, tx, ty>>

\* rotationMatrix(degreesToRadians(angleDeg)), for the multiples of 90 degrees
rotationMatrix(angleDeg) ==
    <<CosDeg(angleDeg), SinDeg(angleDeg), -SinDeg(angleDeg), CosDeg(angleDeg), 0, 0>>

scaleMatrix(sx, sy) == <<sx, 0, 0, sy, 0, 0>>

\* multiplyMatrices(a, b): a * b
multiplyMatrices(a, b) ==
    <<a[1] * b[1] + a[3] * b[2],
      a[2] * b[1] + a[4] * b[2],
      a[1] * b[3] + a[3] * b[4],
      a[2] * b[3] + a[4] * b[4],
      a[1] * b[5] + a[3] * b[6] + a[5],
      a[2] * b[5] + a[4] * b[6] + a[6]>>

determinant(m) == m[1] * m[4] - m[2] * m[3]

\* 1 / det, exact for the determinants 1 and -1 of the matrices of the model
invDetOf(det) == IF det < 0 THEN -Quot(1, -det) ELSE Quot(1, det)

\* the same with the translation of the inverse merely negated
invertMatrixNegatedTranslation(m) ==
    IF determinant(m) = 0
    THEN identityMatrix
    ELSE LET invDet == invDetOf(determinant(m))
         IN  <<m[4] * invDet, -m[2] * invDet, -m[3] * invDet, m[1] * invDet,
               -m[5] * invDet, -m[6] * invDet>>

\* invertMatrix(m): Math.abs(det) < 1e-10 is det = 0 on integers
invertMatrix(m) ==
    IF determinant(m) = 0
    THEN identityMatrix
    ELSE LET invDet == invDetOf(determinant(m))
         IN  <<m[4] * invDet, -m[2] * invDet, -m[3] * invDet, m[1] * invDet,
               (m[3] * m[6] - m[4] * m[5]) * invDet,
               (m[2] * m[5] - m[1] * m[6]) * invDet>>

transformPoint(point, matrix) ==
    [x |-> matrix[1] * point.x + matrix[3] * point.y + matrix[5],
     y |-> matrix[2] * point.x + matrix[4] * point.y + matrix[6]]

\* createSimpleTransformMatrix(x, y, rotation)
createSimpleTransformMatrix(x, y, rotation) ==
    multiplyMatrices(translationMatrix(x, y), rotationMatrix(rotation))

worldToLocal(worldPoint, worldMatrix) ==
    transformPoint(worldPoint, invertMatrix(worldMatrix))

localToWorld(localPoint, worldMatrix) == transformPoint(localPoint, worldMatrix)

\* translations composed with quarter turns, then a scale of 1, -1 or 0 on
\* each axis: determinants 1, -1 and 0; and one singular matrix with no zero
\* entry
Matrices ==
    { multiplyMatrices(createSimpleTransformMatrix(x, y, rotation), scaleMatrix(sx, sy)) :
        x \in {0, 30, -7}, y \in {0, 12}, rotation \in {0, 90, 180, 270},
        sx \in {1, -1, 0}, sy \in {1, 0} }
    \cup { <<1, 2, 2, 4, 5, 6>> }

Points == [x : {-5, 0, 40}, y : {0, 25}]

LocalToWorldCall(localPoint, worldMatrix) ==
    /\ callLog' = [fn |-> "localToWorld", localPoint |-> localPoint,
                   worldMatrix |-> worldMatrix,
                   result |-> localToWorld(localPoint, worldMatrix)]
    /\ UNCHANGED <<shapes, shapeOrder, selectedIds, nextId, canvasVars, history, snapEngine,
                   gemini>>

\* the world point of the last localToWorld taken back with the same matrix
WorldToLocalCall ==
    /\ callLog.fn = "localToWorld"
    /\ callLog' = [fn |-> "worldToLocal", worldPoint |-> callLog.result,
                   worldMatrix |-> callLog.worldMatrix,
                   localPoint |-> callLog.localPoint,
                   result |-> worldToLocal(callLog.result, callLog.worldMatrix)]
    /\ UNCHANGED <<shapes, shapeOrder, selectedIds, nextId, canvasVars, history, snapEngine,
                   gemini>>

InvertMatrixCall(m) ==
    /\ callLog' = [fn |-> "invertMatrix", m |-> m, result |-> invertMatrix(m)]
    /\ UNCHANGED <<shapes, shapeOrder, selectedIds, nextId, canvasVars, history, snapEngine,
                   gemini>>

NextMatrix ==
    \/ \E localPoint \in Points, worldMatrix \in Matrices :
           LocalToWorldCall(localPoint, worldMatrix)
    \/ WorldToLocalCall
    \/ \E m \in Matrices : InvertMatrixCall(m)

SpecMatrix == Init /\ [][NextMatrix]_vars

\* ------------------------------------------ Gemini engine: the calls
\* most requests followed within one minute window
MaxWindowRequests == 11
\* the clock is followed in steps of TickMs up to MaxNow
TickMs == 30000
MaxNow == 90000

\* isGeminiInitialized()
IsGeminiInitialized ==
    /\ gemini' = autoInitialize(gemini)
    /\ UNCHANGED <<shapes, shapeOrder, selectedIds, nextId, canvasVars, history,
                   snapEngine, callLog>>

\* generateGeminiSuggestions(...) called: it runs up to its await
GenerateGeminiSuggestions ==
    /\ gemini.windowRequests < MaxWindowRequests
    /\ gemini' = generateUpToAwait(gemini)
    /\ UNCHANGED <<shapes, shapeOrder, selectedIds, nextId, canvasVars, history,
                   snapEngine, callLog>>

\* generateContent resolves: a suspended call goes on and records its usage
GenerateContentResolves ==
    /\ gemini.awaiting > 0
    /\ gemini' = recordUsage([gemini EXCEPT !.awaiting = @ - 1], TokenEstimate)
    /\ UNCHANGED <<shapes, shapeOrder, selectedIds, nextId, canvasVars, history,
                   snapEngine, callLog>>

\* generateContent rejects: a suspended call goes on in its catch block
GenerateContentRejects ==
    /\ gemini.awaiting > 0
    /\ gemini' = [gemini EXCEPT !.awaiting = @ - 1]
    /\ UNCHANGED <<shapes, shapeOrder, selectedIds, nextId, canvasVars, history,
                   snapEngine, callLog>>

\* time passes
Tick ==
    /\ gemini.now + TickMs <= MaxNow
    /\ gemini' = [gemini EXCEPT !.now = @ + TickMs]
    /\ UNCHANGED <<shapes, shapeOrder, selectedIds, nextId, canvasVars, history,
                   snapEngine, callLog>>

\* the callers of the Gemini engine: calls may start while others are
\* suspended
NextGemini ==
    \/ IsGeminiInitialized
    \/ GenerateGeminiSuggestions
    \/ GenerateContentResolves
    \/ GenerateContentRejects
    \/ Tick

SpecGemini == Init /\ [][NextGemini]_vars

\* ---------------------------------------------------------------- notions
RECURSIVE ReachUp(_, _, _)
\* the ids reached from `cur` by following parentId, each taken once
ReachUp(m, cur, seen) ==
    IF cur.parentId = Null \/ cur.parentId \notin DOMAIN m \/ cur.parentId \in seen
    THEN seen
    ELSE ReachUp(m, m[cur.parentId], seen \cup {cur.parentId})

\* the proper ancestors of id in the parent graph
AncestorIds(m, id) == ReachUp(m, m[id], {})

\* no shape is reachable from itself by following parentId
Acyclic(m) == \A id \in DOMAIN m : id \notin AncestorIds(m, id)

RECURSIVE SumX(_)
SumX(ss) == IF ss = <<>> THEN 0 ELSE Head(ss).x + SumX(Tail(ss))

RECURSIVE SumY(_)
SumY(ss) == IF ss = <<>> THEN 0 ELSE Head(ss).y + SumY(Tail(ss))

\* world position: the stored x, y plus the stored origins of all ancestors
WorldX(m, id) == m[id].x + SumX(getAncestors(id, m))
WorldY(m, id) == m[id].y + SumY(getAncestors(id, m))

\* the world box of c lies within the world box of p, on all four edges
WorldInside(m, c, p) ==
    /\ WorldX(m, c) >= WorldX(m, p)
    /\ WorldY(m, c) >= WorldY(m, p)
    /\ WorldX(m, c) + m[c].width <= WorldX(m, p) + m[p].width
    /\ WorldY(m, c) + m[c].height <= WorldY(m, p) + m[p].height

\* the stored box of a lies within the stored box of b, on all four edges
BoxInside(a, b) ==
    /\ a.x >= b.x
    /\ a.y >= b.y
    /\ a.x + a.width <= b.x + b.width
    /\ a.y + a.height <= b.y + b.height

AllRotationsZero(m) == \A id \in DOMAIN m : m[id].rotation = 0

Area(s) == s.width * s.height

\* place of an id in the iteration order of the map
KeyIndex(m, id) == CHOOSE i \in 1..Len(MapKeys(m)) : MapKeys(m)[i] = id

\* the shapes a parent is searched for: every shape of the map, and every
\* input box not yet in the map (handleMouseUp passes it with the id 'temp')
Queries == {shapes[id] : id \in DOMAIN shapes}
           \cup {[id |-> Null, type |-> box.type, x |-> box.x, y |-> box.y,
                  width |-> box.width, height |-> box.height] : box \in InputShapes}

\* the frames findBestParent may return for q: not q, not excluded, containing q
Candidates(q, ex) ==
    {id \in DOMAIN shapes :
        /\ id # q.id
        /\ id \notin ex
        /\ shapes[id].type = "frame"
        /\ BoxInside(q, shapes[id])}

\* ------------------------------------------------------------------ claims
\* C1: when every nestShape is made only after canNest returned true, no
\* shape appears in its own getAncestors list.
C1_NoShapeInOwnAncestors ==
    \A x \in DOMAIN shapes :
        \A i \in 1..Len(getAncestors(x, shapes)) : getAncestors(x, shapes)[i].id # x

\* C1 witness: a shape was nested by nestShape (addShape only links a new
\* shape to an older one) under a frame that is nested itself.
C1_Witness ==
    \E c \in DOMAIN shapes :
        /\ shapes[c].parentId > c
        /\ shapes[c].parentId \in DOMAIN shapes
        /\ Len(getAncestors(c, shapes)) >= 2

\* C3: every id in a children list is a shape of the map whose parentId is
\* the owner, and every shape whose parentId names a shape of the map is in
\* that shape's children list.
C3_ReferentialSymmetry ==
    /\ \A p \in DOMAIN shapes : \A i \in 1..Len(shapes[p].children) :
           /\ shapes[p].children[i] \in DOMAIN shapes
           /\ shapes[shapes[p].children[i]].parentId = p
    /\ \A c \in DOMAIN shapes :
           (shapes[c].parentId # Null /\ shapes[c].parentId \in DOMAIN shapes)
               => c \in SeqElems(shapes[shapes[c].parentId].children)

\* C3 witness: a shape was deleted, and a shape moved by nestShape sits
\* beside another child of its parent.
C3_Witness ==
    /\ Cardinality(DOMAIN shapes) < nextId - 1
    /\ \E c \in DOMAIN shapes :
           /\ shapes[c].parentId > c
           /\ shapes[c].parentId \in DOMAIN shapes
           /\ Len(shapes[shapes[c].parentId].children) >= 2

\* C5: with all rotations zero, canNest(c, p) implies that the world box of
\* c lies within the world box of p.
C5_CanNestImpliesWorldContainment ==
    AllRotationsZero(shapes) =>
        \A c \in DOMAIN shapes, p \in DOMAIN shapes :
            canNest(c, p, shapes) => WorldInside(shapes, c, p)

\* C6: canNest rejects equal ids, absent ids, a parent that is no frame and a
\* child that is an ancestor of the parent, whatever the geometry.
C6_CanNestRejections ==
    \A c \in Ids, p \in Ids :
        ( \/ c = p
          \/ c \notin DOMAIN shapes
          \/ p \notin DOMAIN shapes
          \/ shapes[p].type # "frame"
          \/ c \in AncestorIds(shapes, p) )
        => ~canNest(c, p, shapes)

\* C6 witness: a frame's ancestor whose stored box passes the containment
\* test against that frame, beside a shape that is no frame.
C6_Witness ==
    /\ \E c \in DOMAIN shapes, p \in DOMAIN shapes :
           /\ c \in AncestorIds(shapes, p)
           /\ shapes[p].type = "frame"
           /\ BoxInside(shapes[c], shapes[p])
    /\ \E r \in DOMAIN shapes : shapes[r].type # "frame"

\* C7: findBestParent returns null exactly when no candidate frame contains
\* the shape; otherwise a candidate of minimum area, the first such in map
\* order.
C7_FindBestParent ==
    \A q \in Queries, ex \in SUBSET Ids :
        LET r == findBestParent(q, shapes, ex)
            cands == Candidates(q, ex)
        IN /\ (r = Null) <=> (cands = {})
           /\ r # Null =>
                /\ r \in cands
                /\ \A o \in cands :
                      /\ Area(shapes[r]) <= Area(shapes[o])
                      /\ Area(shapes[o]) = Area(shapes[r])
                            => KeyIndex(shapes, r) <= KeyIndex(shapes, o)

\* C7 witness: a query with two candidates of the same, minimum area and a
\* larger third one.
C7_Witness ==
    \E q \in Queries :
        \E a \in Candidates(q, {}), b \in Candidates(q, {}), c \in Candidates(q, {}) :
            /\ a # b
            /\ Area(shapes[a]) = Area(shapes[b])
            /\ Area(shapes[c]) > Area(shapes[a])
            /\ findBestParent(q, shapes, {}) \in {a, b}

\* C8: findPotentialParent over the map's values returns what findBestParent
\* returns with nothing excluded.
C8_SameParentSearch ==
    \A q \in Queries :
        findPotentialParent(q, MapValues(shapes)) = findBestParent(q, shapes, {})

\* C8 witness: both searches return a frame that ties on area with a later
\* containing frame.
C8_Witness ==
    \E q \in Queries :
        \E a \in Candidates(q, {}), b \in Candidates(q, {}) :
            /\ a < b
            /\ Area(shapes[a]) = Area(shapes[b])
            /\ findPotentialParent(q, MapValues(shapes)) = a

\* C9: with all rotations zero, a nestShape step leaves the child's world
\* position unchanged.
C9_NestKeepsWorldPosition ==
    [][\A c \in DOMAIN shapes, p \in DOMAIN shapes :
          ( /\ c # p
            /\ AllRotationsZero(shapes)
            /\ shapes' = nestShapeMap(shapes, c, p) )
          => /\ WorldX(shapes', c) = WorldX(shapes, c)
             /\ WorldY(shapes', c) = WorldY(shapes, c)]_vars

\* C10: for a root shape c and a frame p, nestShape(c, p) followed by
\* unnestShape(c) restores c's x, y and parentId and p's children list.
C10_NestUnnestRoundTrip ==
    \A c \in DOMAIN shapes, p \in DOMAIN shapes :
        (c # p /\ shapes[c].parentId = Null /\ shapes[p].type = "frame") =>
            LET nested == nestShapeMap(shapes, c, p)
                back == unnestShapeMap(nested, c)
            IN /\ nested[c].parentId = p
               /\ back[c].x = shapes[c].x
               /\ back[c].y = shapes[c].y
               /\ back[c].parentId = Null
               /\ back[p].children = shapes[p].children

\* C10 witness: a root shape and a frame with children and an origin off
\* both axes, so the nest changes both stored coordinates.
C10_Witness ==
    \E c \in DOMAIN shapes, p \in DOMAIN shapes :
        /\ c # p
        /\ shapes[c].parentId = Null
        /\ shapes[p].type = "frame"
        /\ shapes[p].children # <<>>
        /\ shapes[p].x # 0
        /\ shapes[p].y # 0

\* C2: after any sequence of drawing, dragging and dropping, and resizing on
\* the canvas, no shape is reachable from itself by following parentId.
C2_CanvasKeepsParentGraphAcyclic == Acyclic(shapes)

\* C4: every shape whose children list is non-empty is a frame.
C4_ChildrenOnlyInFrames ==
    \A id \in DOMAIN shapes : shapes[id].children # <<>> => shapes[id].type = "frame"


\* ------------------------------------------------------------ layout claims
\* the frames of the map with their children looked up
LayoutOf(m, p) == calculateChildPositions(m[p], childShapes(m, m[p]))

\* each returned x and y stored into its child, whatever the layout mode
WriteBack(m, p) ==
    batchUpdate(m, layoutUpdates(childShapes(m, m[p]), LayoutOf(m, p)))

\* C11: calculateChildPositions is idempotent under write-back for every
\* frame (free, flex, grid, or no layout): computing the positions, storing
\* each returned x and y into its child and computing again gives the same
\* map.
C11_LayoutIdempotentUnderWriteBack ==
    \A p \in FrameIds : LayoutOf(WriteBack(shapes, p), p) = LayoutOf(shapes, p)

\* C11 witness: a grid frame whose positions have been stored, with a child
\* centred in a cell and a child outside the declared grid that keeps a
\* stored position other than the origin
C11_Witness ==
    \E p \in FrameIds :
        /\ HasGrid(shapes[p])
        /\ WriteBack(shapes, p) = shapes
        /\ LET kids == childShapes(shapes, shapes[p])
               grid == shapes[p].layout.grid
           IN /\ Len(kids) = 3
              /\ grid.columns * grid.rows = 2
              /\ kids[3].x # 0
              /\ kids[1].x # 0 /\ kids[1].x # 120

RECURSIVE SumWidths(_)
SumWidths(kids) == IF kids = <<>> THEN 0 ELSE Head(kids).width + SumWidths(Tail(kids))

RECURSIVE SumHeights(_)
SumHeights(kids) == IF kids = <<>> THEN 0 ELSE Head(kids).height + SumHeights(Tail(kids))

\* the flex frames with the given direction and justifyContent
FlexFrames(direction, justifyContent) ==
    {p \in FrameIds : /\ HasFlex(shapes[p])
                      /\ shapes[p].layout.flex.direction = direction
                      /\ shapes[p].layout.flex.justifyContent = justifyContent}

\* C12: in a flex row with justifyContent flex-start and gap >= 0, child k is
\* placed at x = padding.left + the sum over the earlier children of
\* (width + gap); the span from the first child's left edge to the last
\* child's right edge is the sum of the widths + gap * (n - 1); no two
\* children's x-intervals overlap.
C12_FlexRowStartPacksChildren ==
    \A p \in FlexFrames("row", "flex-start") :
        LET flex == shapes[p].layout.flex
            kids == childShapes(shapes, shapes[p])
            pos == LayoutOf(shapes, p)
            n == Len(kids)
        IN flex.gap >= 0 =>
           /\ \A k \in 1..n :
                 pos[kids[k].id].x =
                    flex.padding.left + SumWidths(SubSeq(kids, 1, k - 1)) + flex.gap * (k - 1)
           /\ n > 0 =>
                 pos[kids[n].id].x + kids[n].width - pos[kids[1].id].x =
                    SumWidths(kids) + flex.gap * (n - 1)
           /\ \A i, j \in 1..n :
                 i < j => pos[kids[i].id].x + kids[i].width <= pos[kids[j].id].x

\* C12 witness: a flex-start row of three children with a gap and a left
\* padding, the positions stored in the children
C12_Witness ==
    \E p \in FlexFrames("row", "flex-start") :
        /\ Len(shapes[p].children) = 3
        /\ shapes[p].layout.flex.gap > 0
        /\ shapes[p].layout.flex.padding.left > 0
        /\ WriteBack(shapes, p) = shapes
        /\ shapes[shapes[p].children[3]].x > shapes[shapes[p].children[2]].x

\* the children in the order the flex loop walks them
Walked(p) ==
    IF isReverseDirection(shapes[p].layout.flex.direction)
    THEN Reverse(childShapes(shapes, shapes[p]))
    ELSE childShapes(shapes, shapes[p])

\* C13: with justifyContent space-between and more than one child, the first
\* child walked sits at the main-axis padding offset, the far edge of the last
\* sits at padding + content size, and the spaces between consecutive children
\* are equal and do not depend on the configured gap; a single child sits at
\* the padding offset.
C13_SpaceBetweenFillsMainAxis ==
    \A p \in FrameIds :
        (HasFlex(shapes[p]) /\ shapes[p].layout.flex.justifyContent = "space-between") =>
        LET flex == shapes[p].layout.flex
            isRow == isRowDirection(flex.direction)
            kids == Walked(p)
            pos == LayoutOf(shapes, p)
            n == Len(kids)
            start == IF isRow THEN flex.padding.left ELSE flex.padding.top
            content == IF isRow
                       THEN shapes[p].width - flex.padding.left - flex.padding.right
                       ELSE shapes[p].height - flex.padding.top - flex.padding.bottom
            near(k) == IF isRow THEN pos[kids[k].id].x ELSE pos[kids[k].id].y
            far(k) == near(k) + (IF isRow THEN kids[k].width ELSE kids[k].height)
            otherGap == [shapes[p] EXCEPT !.layout.flex.gap = flex.gap + 24]
        IN /\ n >= 1 => near(1) = start
           /\ n > 1 => far(n) = start + content
           /\ \A i, j \in 1..(n - 1) : near(i + 1) - far(i) = near(j + 1) - far(j)
           /\ n > 1 => calculateChildPositions(otherGap, childShapes(shapes, shapes[p])) = pos

\* C13 witness: a space-between column of three children of unlike heights
\* with a configured gap, the positions stored in the children
C13_Witness ==
    \E p \in FrameIds :
        /\ HasFlex(shapes[p])
        /\ shapes[p].layout.flex.justifyContent = "space-between"
        /\ shapes[p].layout.flex.direction = "column"
        /\ shapes[p].layout.flex.gap > 0
        /\ shapes[p].layout.flex.padding.top > 0
        /\ Len(shapes[p].children) = 3
        /\ shapes[shapes[p].children[1]].height # shapes[shapes[p].children[2]].height
        /\ WriteBack(shapes, p) = shapes

\* C15: in a grid, child i (from 0) is mapped to (row, col) =
\* (i div columns, i mod columns) in row flow and (i mod rows, i div rows) in
\* column flow; inside the declared columns x rows it is placed, on each axis,
\* at cell origin + (cell size - child size) / 2, with cell size =
\* (content size - gap * (count - 1)) / count and cell origin =
\* padding + index * (cell size + gap); otherwise it keeps its stored (x, y);
\* every child has exactly one entry.  (The equalities are multiplied by
\* 2 * count to state them without a quotient.)
C15_GridCells ==
    \A p \in FrameIds :
        (HasGrid(shapes[p]) /\ shapes[p].layout.grid.autoFlow \in {"row", "column"}) =>
        LET grid == shapes[p].layout.grid
            kids == childShapes(shapes, shapes[p])
            pos == LayoutOf(shapes, p)
            contentW == shapes[p].width - grid.padding.left - grid.padding.right
            contentH == shapes[p].height - grid.padding.top - grid.padding.bottom
            cellsW == contentW - grid.columnGap * (grid.columns - 1)
            cellsH == contentH - grid.rowGap * (grid.rows - 1)
            row(i) == IF grid.autoFlow = "row" THEN i \div grid.columns ELSE i % grid.rows
            col(i) == IF grid.autoFlow = "row" THEN i % grid.columns ELSE i \div grid.rows
        IN /\ DOMAIN pos = {kids[k].id : k \in 1..Len(kids)}
           /\ \A k \in 1..Len(kids) :
                 LET i == k - 1
                     child == kids[k]
                     at == pos[child.id]
                 IN IF col(i) < grid.columns /\ row(i) < grid.rows
                    THEN /\ 2 * grid.columns * (at.x - grid.padding.left) =
                               2 * col(i) * (cellsW + grid.columns * grid.columnGap)
                               + (cellsW - grid.columns * child.width)
                         /\ 2 * grid.rows * (at.y - grid.padding.top) =
                               2 * row(i) * (cellsH + grid.rows * grid.rowGap)
                               + (cellsH - grid.rows * child.height)
                         /\ DOMAIN at = {"x", "y"}
                    ELSE at = [x |-> child.x, y |-> child.y]

\* C15 witness: a column-flow grid of two columns and two rows with gaps and
\* padding and three children, and a row-flow grid of two cells whose third
\* child is outside the grid
C15_Witness ==
    \E p \in FrameIds :
        /\ HasGrid(shapes[p])
        /\ Len(shapes[p].children) = 3
        /\ LET grid == shapes[p].layout.grid
           IN /\ grid.columnGap > 0 /\ grid.rowGap > 0 /\ grid.padding.left > 0
              /\ \/ grid.autoFlow = "column" /\ grid.columns = 2 /\ grid.rows = 2
                 \/ grid.autoFlow = "row" /\ grid.columns = 2 /\ grid.rows = 1
        /\ WriteBack(shapes, p) = shapes

\* no drag in progress and every animation-frame callback has run
Settled == draggingId = Null /\ pendingFrames = <<>>

\* C14: in a flex frame with alignItems stretch, calculateChildPositions
\* reports for every child a cross-axis size override (height in a row, width
\* in a column) equal to the frame's cross size minus its two cross paddings,
\* and once the canvas has laid the frame out again after a drag end, each
\* child's stored cross-axis size equals that override.
C14_StretchOverrideReportedAndStored ==
    \A p \in FrameIds :
        (HasFlex(shapes[p]) /\ shapes[p].layout.flex.alignItems = "stretch") =>
        LET flex == shapes[p].layout.flex
            isRow == isRowDirection(flex.direction)
            kids == childShapes(shapes, shapes[p])
            pos == LayoutOf(shapes, p)
            cross == IF isRow
                     THEN shapes[p].height - flex.padding.top - flex.padding.bottom
                     ELSE shapes[p].width - flex.padding.left - flex.padding.right
        IN /\ \A k \in 1..Len(kids) :
                 IF isRow
                 THEN "height" \in DOMAIN pos[kids[k].id] /\ pos[kids[k].id].height = cross
                 ELSE "width" \in DOMAIN pos[kids[k].id] /\ pos[kids[k].id].width = cross
           /\ (Settled /\ p \in dragLog.reflowed) =>
                 \A k \in 1..Len(kids) :
                     (IF isRow THEN kids[k].height ELSE kids[k].width) = cross

\* C16: after a drag end that changes the children of a flex or grid frame
\* (a shape nested in, moved out to the root or to another frame, or
\* reordered), once all animation-frame callbacks have run, every child of
\* each affected frame has a stored (x, y) equal to the position
\* calculateChildPositions computes for it.
C16_AffectedFramesLaidOut ==
    Settled =>
        \A p \in dragLog.changed \cap DOMAIN shapes :
            (HasFlex(shapes[p]) \/ HasGrid(shapes[p])) =>
            LET kids == childShapes(shapes, shapes[p])
                pos == LayoutOf(shapes, p)
            IN \A k \in 1..Len(kids) :
                  kids[k].x = pos[kids[k].id].x /\ kids[k].y = pos[kids[k].id].y

\* ------------------------------------------------- cascades (C17 to C20)
\* the point p turned about c by a multiple of 90 degrees, each quarter
\* written out
QuarterTurn(p, c, angleDeg) ==
    CASE angleDeg % 360 = 0 -> [x |-> p.x, y |-> p.y]
      [] angleDeg % 360 = 90 -> [x |-> c.x - (p.y - c.y), y |-> c.y + (p.x - c.x)]
      [] angleDeg % 360 = 180 -> [x |-> 2 * c.x - p.x, y |-> 2 * c.y - p.y]
      [] angleDeg % 360 = 270 -> [x |-> c.x + (p.y - c.y), y |-> c.y - (p.x - c.x)]

\* the middle of a box
CentreOf(box) == [x |-> box.x + box.width \div 2, y |-> box.y + box.height \div 2]

\* the shapes that have p among their ancestors, found by following parentId
DescendantIds(m, p) ==
    {id \in DOMAIN m : \E i \in 1..Len(getAncestors(id, m)) : getAncestors(id, m)[i].id = p}

\* the frames that have a descendant
Parents == {p \in DOMAIN shapes : DescendantIds(shapes, p) # {}}

\* the angles a frame is turned by
Turns == {90, 180, 270, -90}

\* the centres a frame is turned about: its own and the one of Scenario A
TurnCentres(p) == {CentreOf(shapes[p]), [x |-> 200, y |-> 150]}

\* Scenario A: a frame at (0,0,400,300) with one child (10,10,50,50)
ScenarioA ==
    poseScene([type |-> "frame", x |-> 0, y |-> 0, width |-> 400, height |-> 300],
              [type |-> "frame", x |-> 10, y |-> 10, width |-> 50, height |-> 50],
              0, 0, FALSE)

Turned(m, p, d, c) ==
    batchUpdate(m, asChanges(getDescendantRotationUpdates(p, d, c.x, c.y, m)))

\* the descendants of p after its move updates for (dx, dy) are stored
Shifted(m, p, dx, dy) ==
    batchUpdate(m, asChanges(getDescendantUpdates(p, dx, dy, m)))

\* the descendants of p have the same x, y and rotation in m1 and m2
SamePose(m1, m2, p) ==
    \A id \in DescendantIds(m1, p) :
        /\ m2[id].x = m1[id].x
        /\ m2[id].y = m1[id].y
        /\ m2[id].rotation = m1[id].rotation

Unrotated(box, parent) ==
    QuarterTurn(CentreOf(box), CentreOf(parent), -parent.rotation)

RECURSIVE SumField(_, _)
\* the sum of a field over a list of shapes
SumField(list, f) ==
    IF list = <<>> THEN 0 ELSE list[1][f] + SumField(Tail(list), f)

\* C20: getWorldTransform(id) of a nested shape whose ancestors are all
\* unrotated returns the stored x, y plus the stored origins of all its
\* ancestors; the returned rotation is the shape's rotation plus the sum of
\* its ancestors' rotations.
C20_WorldTransformAddsAncestors ==
    \A id \in DOMAIN shapes :
        LET ancestors == getAncestors(id, shapes)
            world == getWorldTransform(id, shapes)
        IN ancestors # <<>> =>
              /\ world.rotation = shapes[id].rotation + SumField(ancestors, "rotation")
              /\ (\A i \in 1..Len(ancestors) : ancestors[i].rotation = 0) =>
                    /\ world.x = shapes[id].x + SumField(ancestors, "x")
                    /\ world.y = shapes[id].y + SumField(ancestors, "y")

\* the rotation part of C20 alone
C20_WorldRotationAddsAncestors ==
    \A id \in DOMAIN shapes :
        getAncestors(id, shapes) # <<>> =>
            getWorldTransform(id, shapes).rotation
                = shapes[id].rotation + SumField(getAncestors(id, shapes), "rotation")

\* ------------------------------------------------- the store (C21, C27, C28)
\* the ids that are not in the shape map: never issued, or deleted
MissingIds == Ids \ DOMAIN shapes

\* C21: with an id that is not in the shape map, getAncestors,
\* getDescendants and getSiblings return empty lists, canNest returns false,
\* getWorldTransform returns x = 0, y = 0, rotation = 0 and scale 1, and
\* nestShape, unnestShape, updateShape and deleteShape leave the shapes map,
\* shapeOrder and the history as they were.
C21_MissingIdsChangeNothing ==
    \A id \in MissingIds :
        /\ getAncestors(id, shapes) = <<>>
        /\ getDescendants(id, shapes) = <<>>
        /\ getSiblings(id, shapes) = <<>>
        /\ \A other \in Ids : ~canNest(id, other, shapes) /\ ~canNest(other, id, shapes)
        /\ getWorldTransform(id, shapes)
              = [x |-> 0, y |-> 0, rotation |-> 0, scaleX |-> 1, scaleY |-> 1]
        /\ \A other \in Ids :
              /\ nestShape(StoreState, id, other) = StoreState
              /\ nestShape(StoreState, other, id) = StoreState
        /\ unnestShape(StoreState, id) = StoreState
        /\ \A updates \in StoreUpdates : updateShape(StoreState, id, updates) = StoreState
        /\ deleteShape(StoreState, id) = StoreState

\* a shape was deleted, another is in the map with a child, and the history
\* holds an update
C21_Witness ==
    /\ \E id \in IssuedIds : id \in MissingIds
    /\ \E id \in DOMAIN shapes : shapes[id].children # <<>>
    /\ \E i \in 1..Len(history.actions) : history.actions[i].type = "update-shape"

\* ------------------------------------------------ snapping (C22 to C26, C29)
\* the last call was snapShape for a 40x40 shape requested at (newX, 100) on
\* a canvas 200 wide, threshold 8, snapping enabled, no other shapes
ScenarioC(newX) ==
    /\ callLog.fn = "snapShape"
    /\ callLog.engine = [threshold |-> 8, enabled |-> TRUE]
    /\ callLog.movingShape.width = 40 /\ callLog.movingShape.height = 40
    /\ callLog.newX = newX /\ callLog.newY = 100
    /\ callLog.canvasWidth = 200
    /\ callLog.otherShapes = <<>>

\* the guides of the last call hold a vertical guide of the canvas at 100
CanvasGuideAt100 ==
    \E i \in 1..Len(callLog.result.guides) :
        /\ callLog.result.guides[i].type = "vertical"
        /\ callLog.result.guides[i].position = 100
        /\ callLog.result.guides[i].targetShapeId = CanvasId

\* C22 as stated: snapShape for a 40x40 shape requested at (198, 100) on a
\* canvas 200 wide with threshold 8 and no other shapes returns snappedX = 80
\* and a vertical guide at 100 whose targetShapeId is 'canvas'.
C22_ScenarioCAsStated ==
    ScenarioC(198) => callLog.result.snappedX = 80 /\ CanvasGuideAt100

\* C22, amended: requested at (198, 100) the shape's centre is at 218, 118
\* from the canvas centre, and snapShape returns snappedX = 198 and no
\* vertical guide; requested at (78, 100), centre 98, it returns snappedX = 80
\* and a vertical guide at 100 whose targetShapeId is 'canvas'.
C22_ScenarioCSnapsWithinThreshold ==
    /\ ScenarioC(198) =>
          /\ callLog.result.snappedX = 198
          /\ \A i \in 1..Len(callLog.result.guides) :
                callLog.result.guides[i].type # "vertical"
    /\ ScenarioC(78) => callLog.result.snappedX = 80 /\ CanvasGuideAt100

\* the 40x40 shape was requested at (78, 100) and snapped to the centre
C22_Witness == ScenarioC(78) /\ callLog.result.snappedX = 80

\* C23: snapResize returns width >= 10 and height >= 10 for every input,
\* whether snapping is enabled or disabled.
C23_ResizeNeverBelowFloor ==
    callLog.fn = "snapResize" =>
        callLog.result.width >= 10 /\ callLog.result.height >= 10

\* the floor of C23 with snapping enabled
C23_ResizeFloorWhenEnabled ==
    (callLog.fn = "snapResize" /\ callLog.engine.enabled) =>
        callLog.result.width >= 10 /\ callLog.result.height >= 10

\* ------------------------------------------------------------ matrices (C24)
\* C24: for a matrix of determinant 1 or -1 (a translation composed with
\* quarter turns and reflections) worldToLocal(localToWorld(p, m), m) is p,
\* and invertMatrix of a matrix of determinant 0 is the identity matrix.
C24_RoundTripAndSingularInverse ==
    /\ (callLog.fn = "worldToLocal" /\ determinant(callLog.worldMatrix) \in {1, -1})
          => callLog.result = callLog.localPoint
    /\ (callLog.fn = "invertMatrix" /\ determinant(callLog.m) = 0)
          => callLog.result = identityMatrix

\* a point taken to the world and back by a quarter turn with a translation
C24_Witness ==
    /\ callLog.fn = "worldToLocal"
    /\ determinant(callLog.worldMatrix) \in {1, -1}
    /\ callLog.worldMatrix[2] # 0
    /\ callLog.worldMatrix[5] # 0
    /\ callLog.worldPoint # callLog.localPoint
    /\ callLog.result = callLog.localPoint

\* ------------------------------------------------- snapping rules (C25, C29)
\* the five checks of one target on one axis, in the order of evaluation:
\* same-side edge, far edge, near edge to far edge, far edge to near edge,
\* centre; each as <<distance, snapped coordinate>>, both doubled
AxisChecks(pos, size, targetPos, targetSize) ==
    << <<2 * Abs(pos - targetPos), 2 * targetPos>>,
       <<2 * Abs((pos + size) - (targetPos + targetSize)), 2 * (targetPos + targetSize - size)>>,
       <<2 * Abs(pos - (targetPos + targetSize)), 2 * (targetPos + targetSize)>>,
       <<2 * Abs((pos + size) - targetPos), 2 * (targetPos - size)>>,
       <<Abs((2 * pos + size) - (2 * targetPos + targetSize)),
         2 * targetPos + targetSize - size>> >>

\* the rule of one target that matches, if any: the first matching check
TargetRule(t, pos, size, id, targetPos, targetSize) ==
    LET checks == AxisChecks(pos, size, targetPos, targetSize)
        matching == {i \in 1..5 : checks[i][1] < 2 * t}
    IN IF matching = {} THEN <<>>
       ELSE LET first == CHOOSE i \in matching : \A j \in matching : i <= j
            IN  << [target |-> id, doubled |-> checks[first][2]] >>

RECURSIVE TargetRules(_, _, _, _, _, _, _)
\* the matching rules of the targets in list order, the moving shape's own id
\* left out; p and s name the fields of the axis
TargetRules(t, pos, size, ownId, targets, p, s) ==
    IF targets = <<>> THEN <<>>
    ELSE (IF Head(targets).id = ownId THEN <<>>
          ELSE TargetRule(t, pos, size, Head(targets).id, Head(targets)[p], Head(targets)[s]))
         \o TargetRules(t, pos, size, ownId, Tail(targets), p, s)

\* the matching rules of an axis in evaluation order: the canvas centre, then
\* the targets
AxisRules(t, pos, size, canvasSize, ownId, targets, p, s) ==
    (IF Abs((2 * pos + size) - canvasSize) < 2 * t
     THEN << [target |-> CanvasId, doubled |-> canvasSize - size] >>
     ELSE <<>>)
    \o TargetRules(t, pos, size, ownId, targets, p, s)

\* the matching rules of the last snapShape call on the X and on the Y axis
RulesX ==
    AxisRules(callLog.engine.threshold, callLog.newX, callLog.movingShape.width,
              callLog.canvasWidth, callLog.movingShape.id, callLog.otherShapes, "x", "width")

RulesY ==
    AxisRules(callLog.engine.threshold, callLog.newY, callLog.movingShape.height,
              callLog.canvasHeight, callLog.movingShape.id, callLog.otherShapes, "y", "height")

GuidesOf(type) == SelectSeq(callLog.result.guides, LAMBDA g : g.type = type)

\* the snapped coordinate is the one of the last rule, the guides of the
\* orientation are one per rule, in order, each naming the rule's target
LastRuleWins(rules, requested, snapped, guides) ==
    /\ 2 * snapped = IF rules = <<>> THEN 2 * requested ELSE rules[Len(rules)].doubled
    /\ Len(guides) = Len(rules)
    /\ \A i \in 1..Len(rules) : guides[i].targetShapeId = rules[i].target

\* C25: in snapShape the snapped coordinate of each axis is the one set by
\* the last matching rule in evaluation order (the canvas centre, then each
\* other shape in list order with only its first matching check); one guide
\* is appended per matching rule, and a target with the moving shape's own id
\* contributes nothing.
C25_LastMatchingRuleWins ==
    (callLog.fn = "snapShape" /\ callLog.engine.enabled) =>
        /\ LastRuleWins(RulesX, callLog.newX, callLog.result.snappedX, GuidesOf("vertical"))
        /\ LastRuleWins(RulesY, callLog.newY, callLog.result.snappedY, GuidesOf("horizontal"))
        /\ Len(callLog.result.guides) = Len(RulesX) + Len(RulesY)
        /\ \A i \in 1..Len(callLog.result.guides) :
              callLog.result.guides[i].targetShapeId # callLog.movingShape.id

\* two rules of the X axis matched with different coordinates and the later
\* one gave the result
C25_Witness ==
    /\ callLog.fn = "snapShape" /\ callLog.engine.enabled
    /\ Len(RulesX) >= 2
    /\ RulesX[1].doubled # RulesX[Len(RulesX)].doubled
    /\ 2 * callLog.result.snappedX = RulesX[Len(RulesX)].doubled

\* C29: with snapping enabled and a threshold t > 0 snapShape returns a
\* position less than t from the requested one on each axis, and the
\* requested coordinate itself on an axis with no guide of its orientation;
\* with snapping disabled it returns the requested position and no guides.
C29_SnapStaysWithinThreshold ==
    callLog.fn = "snapShape" =>
        /\ (callLog.engine.enabled /\ callLog.engine.threshold > 0) =>
              /\ Abs(callLog.result.snappedX - callLog.newX) < callLog.engine.threshold
              /\ Abs(callLog.result.snappedY - callLog.newY) < callLog.engine.threshold
              /\ GuidesOf("vertical") = <<>> => callLog.result.snappedX = callLog.newX
              /\ GuidesOf("horizontal") = <<>> => callLog.result.snappedY = callLog.newY
        /\ ~callLog.engine.enabled =>
              /\ callLog.result.snappedX = callLog.newX
              /\ callLog.result.snappedY = callLog.newY
              /\ callLog.result.guides = <<>>

\* a call that moved the shape on both axes
C29_Witness ==
    /\ callLog.fn = "snapShape" /\ callLog.engine.enabled
    /\ callLog.result.snappedX # callLog.newX
    /\ callLog.result.snappedY # callLog.newY
    /\ callLog.otherShapes # <<>>

\* --------------------------------------------------- distribution (C26)
\* the shapes of the last getDistributionGuides call
Given == callLog.shapes

\* the i-th shape from the left
FromLeft(i) ==
    CHOOSE s \in {Given[k] : k \in 1..Len(Given)} :
        Cardinality({k \in 1..Len(Given) : Given[k].x < s.x}) = i - 1

\* the gap between the i-th shape from the left and the next one
GapAfter(i) == FromLeft(i + 1).x - (FromLeft(i).x + FromLeft(i).width)

RECURSIVE GapsUpTo(_)
GapsUpTo(i) == IF i = 0 THEN 0 ELSE GapsUpTo(i - 1) + GapAfter(i)

\* every gap differs from the mean gap by at most the threshold (both sides
\* multiplied by the number of gaps)
GapsUniform ==
    LET gaps == Len(Given) - 1
    IN \A i \in 1..gaps :
          Abs(GapAfter(i) * gaps - GapsUpTo(gaps)) <= callLog.engine.threshold * gaps

\* guide i lies midway between the i-th shape from the left and the next
\* one and spans from the smaller top to the larger bottom of the two
MidwayGuide(guide, i) ==
    /\ guide.type = "vertical"
    /\ 2 * guide.position = FromLeft(i).x + FromLeft(i).width + FromLeft(i + 1).x
    /\ guide.start = Min(FromLeft(i).y, FromLeft(i + 1).y)
    /\ guide.end = Max(FromLeft(i).y + FromLeft(i).height,
                       FromLeft(i + 1).y + FromLeft(i + 1).height)

\* C26: getDistributionGuides returns no guides for fewer than 3 shapes; for
\* 3 or more it returns n - 1 vertical guides, one per adjacent pair of the
\* shapes sorted by x, at the midpoint of the gap and spanning the pair, when
\* every gap differs from the mean gap by at most the threshold, and none
\* otherwise; widths 100 at x = 0, 150, 300 give guides at 125 and 275.
C26_DistributionGuides ==
    callLog.fn = "getDistributionGuides" =>
        /\ Len(Given) < 3 => callLog.result = <<>>
        /\ (Len(Given) >= 3 /\ GapsUniform) =>
              /\ Len(callLog.result) = Len(Given) - 1
              /\ \A i \in 1..(Len(Given) - 1) : MidwayGuide(callLog.result[i], i)
        /\ (Len(Given) >= 3 /\ ~GapsUniform) => callLog.result = <<>>
        /\ (Len(Given) = 3 /\ {Given[k].x : k \in 1..3} = {0, 150, 300}
                /\ \A k \in 1..3 : Given[k].width = 100) =>
              /\ Len(callLog.result) = 2
              /\ callLog.result[1].position = 125
              /\ callLog.result[2].position = 275

\* four shapes handed over from right to left, with gaps of 50, 50 and 58
\* and threshold 8: three guides
C26_Witness ==
    /\ callLog.fn = "getDistributionGuides"
    /\ Len(Given) = 4
    /\ Given[1].x > Given[4].x
    /\ GapAfter(3) # GapAfter(1)
    /\ Len(callLog.result) = 3

\* ------------------------------------------------- store lists (C27, C28)
\* no id stands at two places of the list
NoDuplicates(list) ==
    \A i, j \in 1..Len(list) : i # j => list[i] # list[j]

\* C27: after any sequence of addShape, nestShape and unnestShape calls no
\* shape's children list holds the same id more than once; nestShape(c, p)
\* called when c is already a child of p leaves c once in p.children.
C27_ChildrenHoldNoIdTwice ==
    \A id \in DOMAIN shapes : NoDuplicates(shapes[id].children)

\* C28: after deleteShape(id) on a shape with descendants every id of
\* shapeOrder and every id of selectedIds is a shape of the map, so that a
\* following selectAll selects only shapes that exist.
C28_ListsNameOnlyStoredShapes ==
    /\ \A i \in 1..Len(shapeOrder) : shapeOrder[i] \in DOMAIN shapes
    /\ \A i \in 1..Len(selectedIds) : selectedIds[i] \in DOMAIN shapes

\* ------------------------------------------------------- rate limit (C30)
\* C30: between two resets of the minute counters at most RPM = 10
\* generateContent requests are issued by generateGeminiSuggestions, also
\* when calls overlap and when requests fail.
C30_AtMostRPMRequestsPerWindow == gemini.windowRequests <= RPM

====
